---- MODULE Spec2Model ----
(***************************************************************************)
(* A model of pak: the Type engine (src/pak/types/type.py) and the Packet  *)
(* field engine (src/pak/packets.py).                                      *)
(*                                                                         *)
(* Python values are modelled as sequences of integers:                    *)
(*   None        is <<>>                                                   *)
(*   the int n   is <<n>>                                                  *)
(*   STATIC_SIZE is <<0, 0>> (a sentinel equal to no other value)          *)
(* Raw data (bytes) is a sequence of integers in 0..255.                   *)
(* An operation that can raise returns a record whose err field names the  *)
(* exception ("" when it returned normally).                               *)
(***************************************************************************)
EXTENDS Integers, Sequences, FiniteSets, TLC

VARIABLES
    classes,   \* the Packet types declared so far: name -> class record
    pkt,       \* the Packet instance under test (NoPacket when none)
    res,       \* what the last operation was given and what it returned
    heap,      \* the mutable objects (lists) that exist: heap[k] is what object k holds
    held,      \* the objects the caller was handed by Type.default()
    typelikes, \* Type._typelikes: the registered classes and their converters, in dict order
    generated, \* the Type definitions make_type has generated, in the order made
    cache,     \* the cache of make_type: the arguments of each call and what it returned
    subs_cache,  \* the cache of Packet.subclasses: root -> what it returned
    ids_cache,   \* the cache of Packet.subclass_with_id: <<root, id, ctx>> -> what it returned
    enabled,   \* StringToIntDynamicValue._enabled
    scopes     \* the StringToIntDynamicValue.context() scopes entered and not yet left

\* the mutable objects
objVars == <<heap, held>>

\* the generated Type definitions
genVars == <<generated, cache>>

\* the caches of ID dispatch
dispatchVars == <<subs_cache, ids_cache>>

\* the DynamicValue rule and its scopes
dynVars == <<enabled, scopes>>

\* the state outside the Packet types and the packet at hand
typeVars == <<objVars, typelikes, genVars, dispatchVars, dynVars>>

vars == <<classes, pkt, res, heap, held, typelikes, generated, cache,
          subs_cache, ids_cache, enabled, scopes>>

----------------------------------------------------------------------------
(* Bounds of the model *)

\* longest raw buffer handed to unpack
MaxBufLen == 3
\* most Packet types declared in one run
MaxClasses == 4
\* most Type definitions generated in one run
MaxTypes == 3
\* most mutable objects alive in one run
MaxObjects == 4
\* longest list a run grows
MaxListLen == 4
\* ints handed to the operations range over -1..MaxVal, and BigVal
MaxVal == 1

----------------------------------------------------------------------------
(* Python values *)

None == <<>>
PyInt(n) == <<n>>
IsInt(v) == Len(v) = 1
STATIC_SIZE == <<0, 0>>
\* a list is a mutable object: a value holds a reference to it, <<k, 0, 0>> for
\* the object heap[k], and two references are the same object when they are equal
Ref(k) == <<k, 0, 0>>
IsRef(v) == Len(v) = 3
\* no mutable object exists
NoObjects == <<>>
\* the list [1, 2, 3] that test_static_default declares as a _default: object 1
DeclaredObjects == <<(<<1, 2, 3>>)>>

\* a value no fixed-width one-byte Type can pack, and that ULEB128 packs to two bytes
BigVal == PyInt(130)

Vals == {None, BigVal} \cup {PyInt(n) : n \in -1..MaxVal}

\* the bytes the model draws raw data from: 0x01, and 0x81 with its top bit set
Bytes == {1, 129}

RECURSIVE SeqsUpTo(_, _)
SeqsUpTo(S, n) ==
    IF n = 0 THEN {<<>>}
    ELSE LET shorter == SeqsUpTo(S, n - 1)
         IN  shorter \cup {<<x>> \o s : x \in S, s \in {t \in shorter : Len(t) = n - 1}}

Bufs == SeqsUpTo(Bytes, MaxBufLen)

\* the packet contexts (PacketContext instances) the model passes; CtxNone is ctx=None
CtxNone == "None"
Ctxs == {CtxNone, "ctx1"}

Ok(v) == [err |-> "", v |-> v]
Raise(e) == [err |-> e, v |-> None]

----------------------------------------------------------------------------
(* Leaf Types: how the concrete Types the Packets below use marshal values. *)
(* Their code is outside the core; they are modelled from the raw data the  *)
(* tests give for them.                                                     *)

\* Int8._pack: one two's-complement byte
Int8_pack(value) ==
    IF ~IsInt(value) THEN Raise("TypeError")
    ELSE IF value[1] \notin -128..127 THEN Raise("struct.error")
    ELSE Ok(<<(value[1] + 256) % 256>>)

\* Int8._unpack: reads one byte; the result is [err, v, rest]
Int8_unpack(buf) ==
    IF Len(buf) < 1 THEN [err |-> "BufferOutOfDataError", v |-> None, rest |-> buf]
    ELSE [err |-> "",
          v |-> PyInt(IF buf[1] >= 128 THEN buf[1] - 256 ELSE buf[1]),
          rest |-> Tail(buf)]

\* Int16._pack: two bytes, little-endian
Int16_pack(value) ==
    IF ~IsInt(value) THEN Raise("TypeError")
    ELSE IF value[1] \notin -32768..32767 THEN Raise("struct.error")
    ELSE LET u == (value[1] + 65536) % 65536
         IN  Ok(<<u % 256, u \div 256>>)

\* Int16._unpack: reads two bytes
Int16_unpack(buf) ==
    IF Len(buf) < 2 THEN [err |-> "BufferOutOfDataError", v |-> None, rest |-> buf]
    ELSE LET u == buf[1] + 256 * buf[2]
         IN  [err |-> "",
              v |-> PyInt(IF u >= 32768 THEN u - 65536 ELSE u),
              rest |-> SubSeq(buf, 3, Len(buf))]

RECURSIVE uleb128_bytes(_)
uleb128_bytes(n) ==
    IF n < 128 THEN <<n>> ELSE <<(n % 128) + 128>> \o uleb128_bytes(n \div 128)

\* ULEB128._pack: seven bits a byte, the top bit set on all but the last
ULEB128_pack(value) ==
    IF ~IsInt(value) THEN Raise("TypeError")
    ELSE IF value[1] < 0 THEN Raise("ValueError")
    ELSE Ok(uleb128_bytes(value[1]))

RECURSIVE ULEB128_unpack(_)
\* ULEB128._unpack: reads bytes up to the first one with its top bit clear
ULEB128_unpack(buf) ==
    IF Len(buf) < 1 THEN [err |-> "BufferOutOfDataError", v |-> None, rest |-> buf]
    ELSE IF buf[1] < 128 THEN [err |-> "", v |-> PyInt(buf[1]), rest |-> Tail(buf)]
    ELSE LET more == ULEB128_unpack(Tail(buf))
         IN  IF more.err # "" THEN more
             ELSE [err |-> "",
                   v |-> PyInt((buf[1] - 128) + 128 * more.v[1]),
                   rest |-> more.rest]

----------------------------------------------------------------------------
(* The Type engine: src/pak/types/type.py *)

\* A size or default slot of a Type definition, as Type.__init_subclass__ leaves it:
\*   kind "none"    the attribute is None
\*   kind "const"   any other plain value v
\*   kind "method"  a classmethod, named by rule
\*   kind "dyn"     a DynamicValue, named by rule
NoSlot == [kind |-> "none", v |-> None, rule |-> ""]
ConstSlot(v) == [kind |-> "const", v |-> v, rule |-> ""]
MethodSlot(rule) == [kind |-> "method", v |-> None, rule |-> rule]
DynSlot(rule) == [kind |-> "dyn", v |-> None, rule |-> rule]

\* the list of the ints ns
PyList(ns) == <<0, 0, 0, 0, 0, 0, 0>> \o ns
IsList(v) == Len(v) >= 7
ListItems(v) == SubSeq(v, 8, Len(v))

\* Int8["test"], the Array of test_array whose size is the sibling field test
ArrayOfTest == "Int8['test']"

\* the str '1', the raw value the tests hand to StringToIntDynamicValue
StrOne == <<1, 0, 0, 0>>
IsStr(v) == Len(v) = 4

\* DynamicValue(initial_value) with the declared value in slot, while the rule
\* StringToIntDynamicValue (_type = str) is enabled or not (on): the value wrapped
\* when the rule is enabled and the value is a str, else the value itself
DynamicValue(on, slot) ==
    IF on /\ slot.kind = "const" /\ IsStr(slot.v) THEN DynSlot("int") ELSE slot

\* StringToIntDynamicValue.context(): entering remembers the state of the rule and
\* enables it, leaving puts the remembered state back
context_enter(on, stack) == [enabled |-> TRUE, scopes |-> Append(stack, on)]
context_exit(on, stack) ==
    [enabled |-> stack[Len(stack)], scopes |-> SubSeq(stack, 1, Len(stack) - 1)]

\* The Type definitions of the model: the leaf Types the Packets use, and the
\* Types the tests of Type.size declare (test_static_size, test_classmethod_size,
\* test_dynamic_value_size, test_no_size), with one whose rule raises.
TypeDefs ==
    [Int8                |-> [size |-> ConstSlot(PyInt(1)), default |-> ConstSlot(PyInt(0)), codec |-> "Int8"],
     Int16               |-> [size |-> ConstSlot(PyInt(2)), default |-> ConstSlot(PyInt(0)), codec |-> "Int16"],
     ULEB128             |-> [size |-> NoSlot,              default |-> ConstSlot(PyInt(0)), codec |-> "ULEB128"],
     EmptyType           |-> [size |-> ConstSlot(PyInt(0)), default |-> MethodSlot("none"),  codec |-> "EmptyType"],
     TestStaticSize      |-> [size |-> ConstSlot(PyInt(4)), default |-> NoSlot,              codec |-> "abstract"],
     TestClassmethodSize |-> [size |-> MethodSlot("double"), default |-> NoSlot,             codec |-> "abstract"],
     TestSize            |-> [size |-> DynSlot("int"),      default |-> NoSlot,              codec |-> "abstract"],
     TestCtxSize         |-> [size |-> DynSlot("ctx"),      default |-> NoSlot,              codec |-> "ULEB128"],
     TestNoSize          |-> [size |-> NoSlot,              default |-> MethodSlot("none"),  codec |-> "EmptyType"],
     TestRaisingSize     |-> [size |-> MethodSlot("raises"), default |-> ConstSlot(PyInt(0)), codec |-> "ULEB128"],
     TestStaticDefault   |-> [size |-> NoSlot,              default |-> ConstSlot(Ref(1)),   codec |-> "abstract"]]
    @@ (ArrayOfTest :> [size |-> NoSlot, default |-> MethodSlot("list"), codec |-> "Array",
                        elem_type |-> "Int8", array_size |-> "test"])

TypeNames == DOMAIN TypeDefs

RECURSIVE Type__pack(_, _)
RECURSIVE Type__unpack(_, _)
RECURSIVE pack_items(_, _)
RECURSIVE unpack_items(_, _, _)
RECURSIVE unpack_after(_, _, _)

\* the raw data of one item followed by the raw data of the items after it
items_data(first, others) ==
    IF first.err # "" THEN first
    ELSE IF others.err # "" THEN others
    ELSE Ok(first.v \o others.v)

\* the raw data of the items of a list, one after the other
pack_items(elem_type, items) ==
    IF items = <<>> THEN Ok(<<>>)
    ELSE items_data(Type__pack(elem_type, PyInt(Head(items))),
                    pack_items(elem_type, Tail(items)))

\* Array._pack of a list that has as many items as the sibling field says
Array_pack(elem_type, value) ==
    IF ~IsList(value) THEN Raise("TypeError") ELSE pack_items(elem_type, ListItems(value))

\* one item read followed by the items read after it: [err, v, rest]
items_read(first, others) ==
    IF others.err # "" THEN others
    ELSE [err |-> "", v |-> <<first.v[1]>> \o others.v, rest |-> others.rest]

\* the items still to read once first was read
unpack_after(elem_type, count, first) ==
    IF first.err # "" THEN [err |-> first.err, v |-> <<>>, rest |-> first.rest]
    ELSE items_read(first, unpack_items(elem_type, count - 1, first.rest))

\* count items read one after the other: [err, v, rest], v the items read
unpack_items(elem_type, count, buf) ==
    IF count <= 0 THEN [err |-> "", v |-> <<>>, rest |-> buf]
    ELSE unpack_after(elem_type, count, Type__unpack(elem_type, buf))

\* the list Array._unpack returns for the items read
list_of(items) ==
    IF items.err # "" THEN [err |-> items.err, v |-> None, rest |-> items.rest]
    ELSE [err |-> "", v |-> PyList(items.v), rest |-> items.rest]

\* Array._unpack when the size of the array is the name of a sibling field and
\* count is what getattr(ctx.packet, name) gave: exactly that many items are read
Array_unpack(elem_type, count, buf) ==
    IF count.err # "" THEN [err |-> count.err, v |-> None, rest |-> buf]
    ELSE IF ~IsInt(count.v) THEN [err |-> "TypeError", v |-> None, rest |-> buf]
    ELSE list_of(unpack_items(elem_type, count.v[1], buf))

\* Type._pack of each Type definition (abstract in Type itself, lines 485-510)
Type__pack(T, value) ==
    CASE TypeDefs[T].codec = "Int8"      -> Int8_pack(value)
      [] TypeDefs[T].codec = "Int16"     -> Int16_pack(value)
      [] TypeDefs[T].codec = "ULEB128"   -> ULEB128_pack(value)
      [] TypeDefs[T].codec = "EmptyType" -> Ok(<<>>)
      [] TypeDefs[T].codec = "Array"     -> Array_pack(TypeDefs[T].elem_type, value)
      [] OTHER                           -> Raise("NotImplementedError")

\* Type._unpack of each Type definition; the result is [err, v, rest]. An Array
\* sized by a sibling field has no packet to ask when the context holds none.
Type__unpack(T, buf) ==
    CASE TypeDefs[T].codec = "Int8"      -> Int8_unpack(buf)
      [] TypeDefs[T].codec = "Int16"     -> Int16_unpack(buf)
      [] TypeDefs[T].codec = "ULEB128"   -> ULEB128_unpack(buf)
      [] TypeDefs[T].codec = "EmptyType" -> [err |-> "", v |-> None, rest |-> buf]
      [] TypeDefs[T].codec = "Array"     ->
            Array_unpack(TypeDefs[T].elem_type, Raise("AttributeError"), buf)
      [] OTHER -> [err |-> "NotImplementedError", v |-> None, rest |-> buf]

\* Type.pack(value, ctx=ctx)
Type_pack(T, value, ctx) == Type__pack(T, value)

\* Type.unpack(buf, ctx=ctx)
Type_unpack(T, buf, ctx) == Type__unpack(T, buf)

\* What the _size classmethod named rule returns for (value, ctx):
\*   "double"  test_classmethod_size: None for STATIC_SIZE, else value * 2
\*   "raises"  a rule that has no static size to give
SizeMethod(rule, value, ctx) ==
    CASE rule = "double" ->
            IF value = STATIC_SIZE THEN Ok(None)
            ELSE IF ~IsInt(value) THEN Raise("TypeError")
            ELSE Ok(PyInt(value[1] * 2))
      [] rule = "raises" -> Raise("NoStaticSizeError")
      [] OTHER -> Ok(None)

\* DynamicValue.get(ctx=ctx) of the DynamicValue named rule:
\*   "int"  StringToIntDynamicValue("1"): int(self.string)
\*   "ctx"  a value read from the context: none without a packet context
DynamicValue_get(rule, ctx) ==
    CASE rule = "int" -> Ok(PyInt(1))
      [] rule = "ctx" -> IF ctx = CtxNone THEN Ok(None) ELSE Ok(PyInt(2))
      [] OTHER -> Ok(None)

\* lines 323-332: the size the slot gives, None when it gives none
SizeFromSlot(T, value, ctx) ==
    LET size == TypeDefs[T].size
        got  == CASE size.kind = "method" -> SizeMethod(size.rule, value, ctx)
                  [] size.kind = "dyn"    -> DynamicValue_get(size.rule, ctx)
                  [] OTHER                -> Ok(size.v)
    IN  IF got.err = "NoStaticSizeError" THEN Ok(None) ELSE got

\* Type_size with a fault: the fallback measures the value even when none was given
Type_size_packs_sentinel(T, value, ctx) ==
    LET size == SizeFromSlot(T, value, ctx)
    IN  IF size.err # "" THEN size
        ELSE IF size.v = None
        THEN LET data == Type_pack(T, value, ctx)
             IN  IF data.err # "" THEN Raise(data.err) ELSE Ok(PyInt(Len(data.v)))
        ELSE size

\* Type_size with a fault: a constant slot is ignored when a value is given
Type_size_measures_first(T, value, ctx) ==
    LET size == SizeFromSlot(T, value, ctx)
        data == Type_pack(T, value, ctx)
    IN  IF size.err # "" THEN size
        ELSE IF value # STATIC_SIZE /\ data.err = "" THEN Ok(PyInt(Len(data.v)))
        ELSE IF size.v = None THEN Raise("NoStaticSizeError")
        ELSE size

\* Type.size(value=STATIC_SIZE, ctx=ctx), lines 267-342
Type_size(T, value, ctx) ==
    LET size == SizeFromSlot(T, value, ctx)
    IN  IF size.err # "" THEN size
        ELSE IF size.v = None
        THEN IF value = STATIC_SIZE THEN Raise("NoStaticSizeError")
             ELSE LET data == Type_pack(T, value, ctx)
                  IN  IF data.err # "" THEN Raise(data.err) ELSE Ok(PyInt(Len(data.v)))
        ELSE size

\* What the _default classmethod named rule returns
DefaultMethod(rule, ctx) == IF rule = "list" THEN Ok(PyList(<<>>)) ELSE Ok(None)

\* copy.deepcopy(v) with the objects h: a list is copied into a new object, an int
\* or None, being immutable, is returned as it is.  The result is [v, heap].
deepcopy(h, v) ==
    IF IsRef(v) THEN [v |-> Ref(Len(h) + 1), heap |-> Append(h, h[v[1]])]
    ELSE [v |-> v, heap |-> h]

\* Type_default with a fault: the declared constant itself is returned
Type_default_aliasing(h, T, ctx) ==
    LET default == TypeDefs[T].default
    IN  IF default.kind = "none" THEN [err |-> "TypeError", v |-> None, heap |-> h]
        ELSE [err |-> "", v |-> default.v, heap |-> h]

\* Type.default(ctx=ctx), lines 344-396, with the objects h: [err, v, heap]
Type_default(h, T, ctx) ==
    LET default == TypeDefs[T].default
        got == CASE default.kind = "method" -> DefaultMethod(default.rule, ctx)
                 [] default.kind = "dyn"    -> DynamicValue_get(default.rule, ctx)
                 [] OTHER                   -> Ok(None)
        copy == deepcopy(h, default.v)
    IN  CASE default.kind = "none"  -> [err |-> "TypeError", v |-> None, heap |-> h]
          [] default.kind = "const" -> [err |-> "", v |-> copy.v, heap |-> copy.heap]
          [] OTHER                  -> [err |-> got.err, v |-> got.v, heap |-> h]

----------------------------------------------------------------------------
(* Packet types: src/pak/packets.py, class creation *)

\* A typelike annotation that is no Type definition: the int 1 (test_typelike_attr)
TypelikeOne == "1"

\* The objects handed to Type(): Type definitions, and the int 1, the bool True and
\* the str 'a', which are none
Typelikes == TypeNames \cup {TypelikeOne, "True", "'a'"}

\* the classes a typelike class can be registered under
TypelikeClasses == {"int", "bool", "object"}

\* isinstance(obj, typelike_cls) for an object that is no Type definition: a bool
\* is an int, and everything is an object
isinstance(obj, typelike_cls) ==
    typelike_cls \in (CASE obj = TypelikeOne -> {"int", "object"}
                       [] obj = "True"      -> {"bool", "int", "object"}
                       [] OTHER             -> {"object"})

\* The converters registered: lambda x: pak.Int8 (test_typelike) and one that gives
\* Int16; a converter is named by the Type it returns
Converters == {"Int8", "Int16"}

\* converter(typelike)
CallConverter(converter, typelike) == Ok(converter)

\* Type._typelikes = {}, line 101: a dict, as the sequence of its items
NoTypelikes == <<>>

\* the positions of the items of registry whose class obj is an instance of
Matching(registry, obj) ==
    {i \in 1..Len(registry) : isinstance(obj, registry[i].cls)}

\* Type.__new__ with a fault: the last matching converter is used
Type_new_last_match(registry, typelike) ==
    LET hits == Matching(registry, typelike)
    IN  IF typelike \in TypeNames THEN Ok(typelike)
        ELSE IF hits = {} THEN Raise("TypeError")
        ELSE LET i == CHOOSE k \in hits : \A j \in hits : j <= k
             IN  CallConverter(registry[i].converter, typelike)

\* Type(typelike), lines 106-114, with registry for Type._typelikes
Type_new(registry, typelike) ==
    LET hits == Matching(registry, typelike)
    IN  IF typelike \in TypeNames THEN Ok(typelike)
        ELSE IF hits = {} THEN Raise("TypeError")
        ELSE LET i == CHOOSE k \in hits : \A j \in hits : k <= j
             IN  CallConverter(registry[i].converter, typelike)

\* Type.is_typelike with a fault: only the class of obj itself is looked up
is_typelike_exact_class(registry, obj) ==
    \/ obj \in TypeNames
    \/ \E i \in 1..Len(registry) :
          registry[i].cls = (CASE obj = TypelikeOne -> "int" [] obj = "True" -> "bool" [] OTHER -> "str")

\* Type.is_typelike(obj), lines 142-164: a Type subclass is typelike, and so is an
\* instance of a class among the keys of Type._typelikes
is_typelike(registry, obj) ==
    \/ obj \in TypeNames
    \/ \E i \in 1..Len(registry) : isinstance(obj, registry[i].cls)

\* Type.register_typelike(typelike_cls, converter), lines 116-128: a dict
\* assignment, which keeps the place of a key the dict has already
register_typelike(registry, typelike_cls, converter) ==
    IF \E i \in 1..Len(registry) : registry[i].cls = typelike_cls
    THEN [i \in 1..Len(registry) |->
             IF registry[i].cls = typelike_cls
             THEN [cls |-> typelike_cls, converter |-> converter] ELSE registry[i]]
    ELSE Append(registry, [cls |-> typelike_cls, converter |-> converter])

\* Type.unregister_typelike(typelike_cls), lines 130-140: dict.pop, [err, registry]
unregister_typelike(registry, typelike_cls) ==
    IF \E i \in 1..Len(registry) : registry[i].cls = typelike_cls
    THEN [err |-> "", registry |-> SelectSeq(registry, LAMBDA item : item.cls # typelike_cls)]
    ELSE [err |-> "KeyError", registry |-> registry]

Field(attr, type) == [attr |-> attr, type |-> type]

NoProps == [a \in {} |-> ""]

NoId == [declared |-> FALSE, slot |-> NoSlot]
DeclaredId(slot) == [declared |-> TRUE, slot |-> slot]

\* A class statement: its bases, the annotations of its body in order, the
\* properties its body defines (attr -> "readonly", a getter returning 1 and no
\* setter; or "plus1", a setter storing value + 1), its id attribute and its
\* _id_type attribute ("" when the body sets none).
ClassDecl(bases, annotations, props, id, id_type) ==
    [bases |-> bases, annotations |-> annotations, props |-> props,
     id |-> id, id_type |-> id_type]

\* The class statements the model can execute, after the tests' and the docstrings'.
Decls ==
    [BasicPacket |->
        ClassDecl(<<"Packet">>, <<Field("attr1", "Int8"), Field("attr2", "Int16")>>, NoProps, NoId, ""),
     SwappedPacket |->
        ClassDecl(<<"Packet">>, <<Field("attr2", "Int16"), Field("attr1", "Int8")>>, NoProps, NoId, ""),
     TestParent |->
        ClassDecl(<<"Packet">>, <<Field("test", "Int8")>>, NoProps, NoId, ""),
     TestChildBasic |->
        ClassDecl(<<"TestParent">>, <<>>, NoProps, NoId, ""),
     TestChildOverride |->
        ClassDecl(<<"TestParent">>, <<Field("other", "Int8")>>, NoProps, NoId, ""),
     TestDuplicateField |->
        ClassDecl(<<"TestParent">>, <<Field("test", "Int8")>>, NoProps, NoId, ""),
     FirstParent |->
        ClassDecl(<<"Packet">>, <<Field("first", "Int8")>>, NoProps, NoId, ""),
     SecondParent |->
        ClassDecl(<<"Packet">>, <<Field("second", "Int16")>>, NoProps, NoId, ""),
     Child |->
        ClassDecl(<<"FirstParent", "SecondParent">>, <<Field("child", "Int8")>>, NoProps, NoId, ""),
     ChildBasic |->
        ClassDecl(<<"FirstParent", "SecondParent">>, <<>>, NoProps, NoId, ""),
     DuplicateSecondParent |->
        ClassDecl(<<"Packet">>, <<Field("test", "Int16")>>, NoProps, NoId, ""),
     TestDuplicateFieldFromParents |->
        ClassDecl(<<"TestParent", "DuplicateSecondParent">>, <<>>, NoProps, NoId, ""),
     TestReadOnly |->
        ClassDecl(<<"Packet">>, <<Field("read_only", "Int8"), Field("attr2", "Int16")>>,
                  [a \in {"read_only"} |-> "readonly"], NoId, ""),
     MyPacket |->
        ClassDecl(<<"Packet">>, <<Field("prop", "Int8")>>,
                  [a \in {"prop"} |-> "plus1"], NoId, ""),
     DynamicPacket |->
        ClassDecl(<<"Packet">>, <<Field("field", "ULEB128")>>, NoProps, NoId, ""),
     TestStaticId |->
        ClassDecl(<<"Packet">>, <<Field("attr1", "Int8")>>, NoProps,
                  DeclaredId(ConstSlot(PyInt(1))), "Int8"),
     TestTypelike |->
        ClassDecl(<<"Packet">>, <<Field("attr", TypelikeOne)>>, NoProps, NoId, ""),
     Test |->
        ClassDecl(<<"Packet">>, <<Field("byte", "Int8"), Field("short", "Int16")>>,
                  NoProps, NoId, ""),
     TestHeaderWithHeader |->
        ClassDecl(<<"Packet">>, <<>>, NoProps, NoId, ""),
     TestAttr |->
        ClassDecl(<<"Packet">>, <<Field("test", "Int8"), Field("array", ArrayOfTest)>>,
                  NoProps, NoId, ""),
     TestEmpty |->
        ClassDecl(<<"Packet">>, <<>>, NoProps, NoId, ""),
     TestDynamicId |->
        ClassDecl(<<"Packet">>, <<>>, NoProps, DeclaredId(ConstSlot(StrOne)), "Int8"),
     Root |->
        ClassDecl(<<"Packet">>, <<>>, NoProps, NoId, ""),
     Child1 |->
        ClassDecl(<<"Root">>, <<>>, NoProps, DeclaredId(ConstSlot(PyInt(0))), ""),
     Child2 |->
        ClassDecl(<<"Root">>, <<>>, NoProps, DeclaredId(ConstSlot(PyInt(1))), ""),
     GrandChild1 |->
        ClassDecl(<<"Child1">>, <<>>, NoProps, DeclaredId(ConstSlot(PyInt(2))), ""),
     GrandChild2 |->
        ClassDecl(<<"Child1">>, <<>>, NoProps, NoId, "")]

DeclNames == DOMAIN Decls

\* The class statements nested in the body of another (test_header): a class and
\* the Header its body declares
Headers ==
    ("Test" :> "Test.Header")
    @@ ("TestHeaderWithHeader" :> "TestHeaderWithHeader.Header")
    @@ ("TestHeaderWithHeader.Header" :> "TestHeaderWithHeader.Header.Header")

\* class Header(pak.Packet.Header): ...
HeaderDecls ==
    ("Test.Header" :> ClassDecl(<<"Packet.Header">>, <<Field("size", "Int8")>>, NoProps, NoId, ""))
    @@ ("TestHeaderWithHeader.Header" :> ClassDecl(<<"Packet.Header">>, <<>>, NoProps, NoId, ""))
    @@ ("TestHeaderWithHeader.Header.Header" :> ClassDecl(<<"Packet.Header">>, <<>>, NoProps, NoId, ""))

\* the class statement named name
DeclOf(name) == IF name \in DeclNames THEN Decls[name] ELSE HeaderDecls[name]

\* A class object: its bases, its __mro__ (without object), what its own namespace
\* holds of _fields (has_fields says whether it holds one), its own accessors
\* (attr -> "descriptor", "readonly" or "plus1"), its own id and its own _id_type.
\* class Packet itself, lines 31-152: _id_type = EmptyType, _fields = {}, id() is None
PacketClass ==
    [bases |-> <<>>, mro |-> <<"Packet">>, has_fields |-> TRUE, fields |-> <<>>,
     attrs |-> NoProps, id |-> DeclaredId(NoSlot), id_type |-> "EmptyType"]

Elems(seq) == {seq[i] : i \in 1..Len(seq)}

Inconsistent == "<inconsistent>"

RECURSIVE C3Merge(_)
\* the merge step of Python's method resolution order
C3Merge(seqs) ==
    LET ne == SelectSeq(seqs, LAMBDA q : Len(q) > 0)
        good(i) == \A j \in 1..Len(ne) : Head(ne[i]) \notin Elems(Tail(ne[j]))
        cands == {i \in 1..Len(ne) : good(i)}
    IN  IF Len(ne) = 0 THEN <<>>
        ELSE IF cands = {} THEN <<Inconsistent>>
        ELSE LET i == CHOOSE k \in cands : \A m \in cands : k <= m
                 h == Head(ne[i])
             IN  <<h>> \o C3Merge([j \in 1..Len(ne) |->
                                     IF Head(ne[j]) = h THEN Tail(ne[j]) ELSE ne[j]])

\* the method resolution order of a class with the given bases, itself left out
MroOfBases(cs, bases) ==
    C3Merge([i \in 1..Len(bases) |-> cs[bases[i]].mro] \o <<bases>>)

\* cls.__mro__ (without object)
Mro(cs, cls) == cs[cls].mro

\* the first class of mro among those at the positions hits, "" when hits is empty
FirstWith(mro, hits) ==
    IF hits = {} THEN "" ELSE mro[CHOOSE i \in hits : \A j \in hits : i <= j]

\* the accessor a class attribute lookup of attr finds along mro, "" when none
AccessorIn(cs, mro, attr) ==
    LET owner == FirstWith(mro, {i \in 1..Len(mro) : attr \in DOMAIN cs[mro[i]].attrs})
    IN  IF owner = "" THEN "" ELSE cs[owner].attrs[attr]

\* cls._fields
FieldsOf(cs, cls) ==
    cs[FirstWith(Mro(cs, cls), {i \in 1..Len(Mro(cs, cls)) : cs[Mro(cs, cls)[i]].has_fields})].fields

RECURSIVE ConvertAnnotations(_, _)
\* lines 164-167: each annotation through Type(), with registry for
\* Type._typelikes; the first failure is raised
ConvertAnnotations(registry, annotations) ==
    IF annotations = <<>> THEN Ok(<<>>)
    ELSE LET real_type == Type_new(registry, Head(annotations).type)
             more == ConvertAnnotations(registry, Tail(annotations))
         IN  IF real_type.err # "" THEN Raise(real_type.err)
             ELSE IF more.err # "" THEN more
             ELSE Ok(<<Field(Head(annotations).attr, real_type.v)>> \o more.v)

\* _init_fields_from_annotations with a fault: every field gets the generated
\* descriptor, which takes the place of an accessor of the class body
init_fields_from_annotations_always_described(cs, decl) ==
    LET real == ConvertAnnotations(NoTypelikes, decl.annotations)
        names == {decl.annotations[i].attr : i \in 1..Len(decl.annotations)}
    IN  IF Len(decl.annotations) = 0
        THEN [err |-> "", has_fields |-> FALSE, fields |-> <<>>, attrs |-> decl.props]
        ELSE IF real.err # ""
        THEN [err |-> real.err, has_fields |-> FALSE, fields |-> <<>>, attrs |-> decl.props]
        ELSE [err |-> "", has_fields |-> TRUE, fields |-> real.v,
              attrs |-> [a \in DOMAIN decl.props \cup names |->
                            IF a \in names THEN "descriptor" ELSE decl.props[a]]]

\* Packet._init_fields_from_annotations, lines 154-180, on the class being created
\* from decl, nothing being registered in Type._typelikes: what the class's own
\* namespace holds of _fields and of accessors afterwards.  A class body without
\* annotations leaves the class without a _fields of its own (line 160).
init_fields_from_annotations(cs, decl) ==
    LET mro == MroOfBases(cs, decl.bases)
        inherited(attr) == AccessorIn(cs, mro, attr) # ""
        real == ConvertAnnotations(NoTypelikes, decl.annotations)
        names == {decl.annotations[i].attr : i \in 1..Len(decl.annotations)}
        described == {a \in names : a \notin DOMAIN decl.props /\ ~inherited(a)}
    IN  IF Len(decl.annotations) = 0
        THEN [err |-> "", has_fields |-> FALSE, fields |-> <<>>, attrs |-> decl.props]
        ELSE IF real.err # ""
        THEN [err |-> real.err, has_fields |-> FALSE, fields |-> <<>>, attrs |-> decl.props]
        ELSE [err |-> "", has_fields |-> TRUE, fields |-> real.v,
              attrs |-> [a \in DOMAIN decl.props \cup described |->
                            IF a \in DOMAIN decl.props THEN decl.props[a] ELSE "descriptor"]]

\* real_id with a fault: the id is enrolled whether or not the rule is enabled
real_id_always_enrolled(on, decl) ==
    IF decl.id.declared THEN DeclaredId(DynamicValue(TRUE, decl.id.slot)) ELSE NoId

\* lines 188-202: the id a class body declares is handed to DynamicValue, and
\* real_id gives the DynamicValue or the plain value; a class that declares none
\* keeps the id classmethod it inherits
real_id(on, decl) ==
    IF decl.id.declared THEN DeclaredId(DynamicValue(on, decl.id.slot)) ELSE NoId

\* Packet.__init_subclass__, lines 182-204, run by the class statement decl of the
\* class name while the DynamicValue rule is enabled or not (on): the class object
\* it leaves, or the error it raises
init_subclass(cs, on, name, decl) ==
    LET f == init_fields_from_annotations(cs, decl)
    IN  IF Inconsistent \in Elems(MroOfBases(cs, decl.bases))
        THEN [err |-> "TypeError", cls |-> PacketClass]
        ELSE IF f.err # "" THEN [err |-> f.err, cls |-> PacketClass]
        ELSE [err |-> "",
              cls |-> [bases |-> decl.bases, mro |-> <<name>> \o MroOfBases(cs, decl.bases),
                       has_fields |-> f.has_fields, fields |-> f.fields,
                       attrs |-> f.attrs,
                       id |-> real_id(on, decl),
                       id_type |-> decl.id_type]]

\* cls._id_type
IdTypeOf(cs, cls) ==
    cs[FirstWith(Mro(cs, cls), {i \in 1..Len(Mro(cs, cls)) : cs[Mro(cs, cls)[i]].id_type # ""})].id_type

\* cls.id with a fault: only the id the class itself declares is looked at
Packet_id_own_only(cs, cls, ctx) ==
    IF cs[cls].id.declared THEN Ok(cs[cls].id.slot.v) ELSE Ok(None)

\* cls.id with a fault: a DynamicValue id is not asked for its value
Packet_id_unresolved(cs, cls, ctx) ==
    LET id == cs[FirstWith(Mro(cs, cls), {i \in 1..Len(Mro(cs, cls)) : cs[Mro(cs, cls)[i]].id.declared})].id.slot
    IN  Ok(id.v)

\* cls.id(ctx=ctx), lines 109-152 and 188-204
Packet_id(cs, cls, ctx) ==
    LET id == cs[FirstWith(Mro(cs, cls), {i \in 1..Len(Mro(cs, cls)) : cs[Mro(cs, cls)[i]].id.declared})].id.slot
    IN  IF id.kind = "dyn" THEN DynamicValue_get(id.rule, ctx) ELSE Ok(id.v)

----------------------------------------------------------------------------
(* ID dispatch: Packet.subclasses and Packet.subclass_with_id *)

\* what subclass_with_id returns when it finds no class
NoClass == ""

\* util.subclasses(cls): the classes that have cls among their ancestors, at any depth
Descendants(cs, cls) ==
    {c \in DOMAIN cs \ {cls} : cls \in Elems(Mro(cs, c))}

\* Packet_subclasses with a fault: the descendant set is computed at every call
Packet_subclasses_recomputed(cs, known, cls) ==
    [v |-> Descendants(cs, cls),
     cache |-> [c \in DOMAIN known \cup {cls} |->
                   IF c = cls THEN Descendants(cs, cls) ELSE known[c]]]

\* the cached cls.subclasses(), lines 452-483: what it returns and the cache it leaves
Packet_subclasses(cs, known, cls) ==
    IF cls \in DOMAIN known
    THEN [v |-> known[cls], cache |-> known]
    ELSE [v |-> Descendants(cs, cls), cache |-> known @@ (cls :> Descendants(cs, cls))]

\* subclass_with_id with a fault: the test that the subclass has an ID is left out
subclass_with_id_without_none_test(cs, subclasses, id, ctx) ==
    LET found == {c \in subclasses : Packet_id(cs, c, ctx).v = id}
    IN  IF found = {} THEN {NoClass} ELSE found

\* subclass_with_id with a fault: any subclass that has an ID is a match
subclass_with_id_any_id(cs, subclasses, id, ctx) ==
    LET found == {c \in subclasses : Packet_id(cs, c, ctx).v # None}
    IN  IF found = {} THEN {NoClass} ELSE found

\* the body of subclass_with_id, lines 505-512, over the set cls.subclasses()
\* returned: the classes it can return, one for each order in which the set can be
\* iterated (the first match ends the loop)
subclass_with_id(cs, subclasses, id, ctx) ==
    LET found == {c \in subclasses :
                    /\ Packet_id(cs, c, ctx).v # None
                    /\ Packet_id(cs, c, ctx).v = id}
    IN  IF found = {} THEN {NoClass} ELSE found

\* the key under which the cache of subclass_with_id keeps a call
CallKey(cls, id, ctx) == <<cls, id, ctx>>

----------------------------------------------------------------------------
(* Packet instances: src/pak/packets.py *)

EmptyDict == [a \in {} |-> None]

\* a Packet instance: its class and the values its accessors have stored, by field
Instance(cls, dict) == [cls |-> cls, dict |-> dict]

NoPacket == Instance("", EmptyDict)

DictSet(d, k, v) == [a \in DOMAIN d \cup {k} |-> IF a = k THEN v ELSE d[a]]

\* setattr(self, attr, value): through the accessor the class has for attr.
\* Type.__set__ (type.py lines 259-260) stores the value; a property without a
\* setter raises AttributeError; the "plus1" setter stores value + 1.
\* The result is [err, inst].
Setattr(cs, self, attr, value) ==
    LET kind == AccessorIn(cs, Mro(cs, self.cls), attr)
    IN  CASE kind = "readonly" -> [err |-> "AttributeError", inst |-> self]
          [] kind = "plus1" ->
                IF ~IsInt(value) THEN [err |-> "TypeError", inst |-> self]
                ELSE [err |-> "",
                      inst |-> Instance(self.cls, DictSet(self.dict, attr, PyInt(value[1] + 1)))]
          [] OTHER -> [err |-> "", inst |-> Instance(self.cls, DictSet(self.dict, attr, value))]

\* getattr(self, attr): Type.__get__ (type.py lines 253-257) reads what was stored
\* and raises AttributeError when nothing was; the "readonly" getter returns 1.
Getattr(cs, self, attr) ==
    LET kind == AccessorIn(cs, Mro(cs, self.cls), attr)
    IN  IF kind = "readonly" THEN Ok(PyInt(1))
        ELSE IF attr \in DOMAIN self.dict THEN Ok(self.dict[attr])
        ELSE Raise("AttributeError")

FieldNames(fields) == {fields[i].attr : i \in 1..Len(fields)}

RECURSIVE init_loop(_, _, _, _, _)
\* the loop of lines 208-219 over the fields still to set
init_loop(cs, self, fields, ctx, kwargs) ==
    IF fields = <<>> THEN [err |-> "", inst |-> self]
    ELSE LET attr == Head(fields).attr
             attr_type == Head(fields).type
         IN  IF attr \in DOMAIN kwargs
             THEN LET set == Setattr(cs, self, attr, kwargs[attr])
                  IN  IF set.err # "" THEN set
                      ELSE init_loop(cs, set.inst, Tail(fields), ctx, kwargs)
             ELSE LET default == Type_default(NoObjects, attr_type, ctx)
                      set == Setattr(cs, self, attr, default.v)
                  IN  IF default.err # "" THEN [err |-> default.err, inst |-> self]
                      ELSE IF set.err = "AttributeError"
                      THEN init_loop(cs, self, Tail(fields), ctx, kwargs)
                      ELSE IF set.err # "" THEN set
                      ELSE init_loop(cs, set.inst, Tail(fields), ctx, kwargs)

\* Packet_init with a fault: a default that cannot be assigned stops the constructor
Packet_init_strict(cs, cls, ctx, kwargs) ==
    LET fields == FieldsOf(cs, cls)
        refused == {i \in 1..Len(fields) :
                       /\ fields[i].attr \notin DOMAIN kwargs
                       /\ AccessorIn(cs, Mro(cs, cls), fields[i].attr) = "readonly"}
        done == init_loop(cs, Instance(cls, EmptyDict), fields, ctx, kwargs)
    IN  IF refused # {} THEN [err |-> "AttributeError", inst |-> Instance(cls, EmptyDict)]
        ELSE done

\* Packet.__init__(ctx=ctx, **kwargs), lines 206-224: [err, inst]
Packet_init(cs, cls, ctx, kwargs) ==
    LET fields == FieldsOf(cs, cls)
        done == init_loop(cs, Instance(cls, EmptyDict), fields, ctx, kwargs)
    IN  IF done.err # "" THEN done
        ELSE IF DOMAIN kwargs \ FieldNames(fields) # {}
        THEN [err |-> "TypeError", inst |-> done.inst]
        ELSE done

\* field_unpack with a fault: the Type context holds no packet
field_unpack_without_packet(cs, self, attr_type, buf, ctx) ==
    IF TypeDefs[attr_type].codec = "Array"
    THEN Array_unpack(TypeDefs[attr_type].elem_type,
                      Getattr(cs, Instance(self.cls, EmptyDict), TypeDefs[attr_type].array_size), buf)
    ELSE Type_unpack(attr_type, buf, ctx)

\* attr_type.unpack(buf, ctx=type_ctx), lines 262-264: type_ctx holds the packet
\* being unpacked, which an Array sized by a sibling field asks for that field
field_unpack(cs, self, attr_type, buf, ctx) ==
    IF TypeDefs[attr_type].codec = "Array"
    THEN Array_unpack(TypeDefs[attr_type].elem_type,
                      Getattr(cs, self, TypeDefs[attr_type].array_size), buf)
    ELSE Type_unpack(attr_type, buf, ctx)

RECURSIVE unpack_loop(_, _, _, _, _)
\* the loop of lines 263-272 over the fields still to read: [err, inst, rest]
unpack_loop(cs, self, fields, buf, ctx) ==
    IF fields = <<>> THEN [err |-> "", inst |-> self, rest |-> buf]
    ELSE LET value == field_unpack(cs, self, Head(fields).type, buf, ctx)
             set == Setattr(cs, self, Head(fields).attr, value.v)
         IN  IF value.err # "" THEN [err |-> value.err, inst |-> self, rest |-> value.rest]
             ELSE IF set.err = "AttributeError"
             THEN unpack_loop(cs, self, Tail(fields), value.rest, ctx)
             ELSE IF set.err # "" THEN [err |-> set.err, inst |-> self, rest |-> value.rest]
             ELSE unpack_loop(cs, set.inst, Tail(fields), value.rest, ctx)

\* Packet_unpack with a fault: a field the buffer cannot give gets its default
RECURSIVE unpack_loop_defaulting(_, _, _, _, _)
unpack_loop_defaulting(cs, self, fields, buf, ctx) ==
    IF fields = <<>> THEN [err |-> "", inst |-> self, rest |-> buf]
    ELSE LET read == field_unpack(cs, self, Head(fields).type, buf, ctx)
             value == IF read.err = "" THEN read
                      ELSE [err |-> "", v |-> Type_default(NoObjects, Head(fields).type, ctx).v, rest |-> <<>>]
             set == Setattr(cs, self, Head(fields).attr, value.v)
         IN  IF set.err # ""
             THEN unpack_loop_defaulting(cs, self, Tail(fields), value.rest, ctx)
             ELSE unpack_loop_defaulting(cs, set.inst, Tail(fields), value.rest, ctx)

Packet_unpack_defaulting(cs, cls, buf, ctx) ==
    unpack_loop_defaulting(cs, Instance(cls, EmptyDict), FieldsOf(cs, cls), buf, ctx)

Reverse(seq) == [i \in 1..Len(seq) |-> seq[Len(seq) + 1 - i]]

\* Packet_unpack with a fault: the fields are read last to first
Packet_unpack_reversed(cs, cls, buf, ctx) ==
    unpack_loop(cs, Instance(cls, EmptyDict), Reverse(FieldsOf(cs, cls)), buf, ctx)

\* what Packet_unpack_exhausting makes of the unpacked packet and the bytes left
unread_refused(made) ==
    IF made.err = "" /\ made.rest # <<>>
    THEN [err |-> "ValueError", inst |-> made.inst, rest |-> made.rest]
    ELSE made

\* Packet_unpack with a fault: bytes left after the last field are an error
Packet_unpack_exhausting(cs, cls, buf, ctx) ==
    unread_refused(unpack_loop(cs, Instance(cls, EmptyDict), FieldsOf(cs, cls), buf, ctx))

\* Packet.unpack(buf, ctx=ctx), lines 226-274: [err, inst, rest]
Packet_unpack(cs, cls, buf, ctx) ==
    unpack_loop(cs, Instance(cls, EmptyDict), FieldsOf(cs, cls), buf, ctx)

RECURSIVE pack_fields(_, _, _, _)
\* lines 307-310: the fields' raw data joined, in the order of _fields
pack_fields(cs, self, fields, ctx) ==
    IF fields = <<>> THEN Ok(<<>>)
    ELSE LET value == Getattr(cs, self, Head(fields).attr)
             data == Type_pack(Head(fields).type, value.v, ctx)
             more == pack_fields(cs, self, Tail(fields), ctx)
         IN  IF value.err # "" THEN Raise(value.err)
             ELSE IF data.err # "" THEN Raise(data.err)
             ELSE IF more.err # "" THEN more
             ELSE Ok(data.v \o more.v)

\* Packet_pack with a fault: the ID is left out
Packet_pack_without_id(cs, self, ctx) ==
    pack_fields(cs, self, FieldsOf(cs, self.cls), ctx)

\* Packet.pack(ctx=ctx), lines 276-310
Packet_pack(cs, self, ctx) ==
    LET id == Packet_id(cs, self.cls, ctx)
        packed_id == Type_pack(IdTypeOf(cs, self.cls), id.v, ctx)
        body == pack_fields(cs, self, FieldsOf(cs, self.cls), ctx)
    IN  IF id.err # "" THEN Raise(id.err)
        ELSE IF packed_id.err # "" THEN Raise(packed_id.err)
        ELSE IF body.err # "" THEN body
        ELSE Ok(packed_id.v \o body.v)

RECURSIVE sum_sizes(_)
\* line 434: sum(attr_type.size() for ...), the first error raised
sum_sizes(fields) ==
    IF fields = <<>> THEN Ok(PyInt(0))
    ELSE LET size == Type_size(Head(fields).type, STATIC_SIZE, CtxNone)
             more == sum_sizes(Tail(fields))
         IN  IF size.err # "" THEN size
             ELSE IF more.err # "" THEN more
             ELSE Ok(PyInt(size.v[1] + more.v[1]))

\* Packet_size with a fault: a field without a static size counts for nothing
RECURSIVE sum_sizes_skipping(_)
sum_sizes_skipping(fields) ==
    IF fields = <<>> THEN Ok(PyInt(0))
    ELSE LET size == Type_size(Head(fields).type, STATIC_SIZE, CtxNone)
             more == sum_sizes_skipping(Tail(fields))
         IN  Ok(PyInt((IF size.err # "" THEN 0 ELSE size.v[1]) + more.v[1]))

Packet_size_skipping(cs, cls) == sum_sizes_skipping(FieldsOf(cs, cls))

\* Packet.size(), lines 405-434: a classmethod, so cls is the class it is called
\* on or the class of the instance it is called on
Packet_size(cs, cls) == sum_sizes(FieldsOf(cs, cls))

\* dict equality of two _fields: the same names with the same Types, in any order
FieldsEqual(f, g) ==
    /\ FieldNames(f) = FieldNames(g)
    /\ \A i \in 1..Len(f) : \A j \in 1..Len(g) : f[i].attr = g[j].attr => f[i].type = g[j].type

RECURSIVE eq_loop(_, _, _, _, _)
\* lines 520-524: all() over the zip of the two packets' values, each in the order
\* of its own _fields; the result is [err, v] with v a BOOLEAN
eq_loop(cs, self, other, f, g) ==
    IF f = <<>> \/ g = <<>> THEN Ok(TRUE)
    ELSE LET value == Getattr(cs, self, Head(f).attr)
             other_value == Getattr(cs, other, Head(g).attr)
         IN  IF value.err # "" THEN [err |-> value.err, v |-> FALSE]
             ELSE IF other_value.err # "" THEN [err |-> other_value.err, v |-> FALSE]
             ELSE IF value.v # other_value.v THEN Ok(FALSE)
             ELSE eq_loop(cs, self, other, Tail(f), Tail(g))

\* Packet.__eq__(self, other), lines 514-524: [err, v] with v a BOOLEAN
Packet_eq(cs, self, other) ==
    LET f == FieldsOf(cs, self.cls)
        g == FieldsOf(cs, other.cls)
    IN  IF ~FieldsEqual(f, g) THEN Ok(FALSE) ELSE eq_loop(cs, self, other, f, g)

----------------------------------------------------------------------------
(* The state machine *)

\* the record an operation leaves in res: the operation, the class it ran on, its
\* argument, the exception it raised ("" for none) and what it returned
Result(op, cls, arg, err, out) ==
    [op |-> op, cls |-> cls, arg |-> arg, err |-> err, out |-> out]

NoResult == Result("", "", None, "", None)

RECURSIVE execute_class(_, _, _)
\* The execution of the class statement of name with the classes cs declared,
\* while the DynamicValue rule is enabled or not (on): [err, classes].  Python
\* evaluates the bases, then runs the body (the class statement of a Header
\* nested in it), then creates the class, which runs __init_subclass__.
\* Looking up a base that is an attribute no class has (pak.Packet.Header:
\* class Packet, lines 31-512, defines no Header) raises AttributeError.  A class
\* statement that raises leaves no class behind.
execute_class(cs, on, name) ==
    LET body == IF name \in DOMAIN Headers
                THEN execute_class(cs, on, Headers[name])
                ELSE [err |-> "", classes |-> cs]
        made == init_subclass(body.classes, on, name, DeclOf(name))
    IN  IF ~(Elems(DeclOf(name).bases) \subseteq DOMAIN cs)
        THEN [err |-> "AttributeError", classes |-> cs]
        ELSE IF body.err # "" THEN [err |-> body.err, classes |-> cs]
        ELSE IF made.err # "" THEN [err |-> made.err, classes |-> cs]
        ELSE [err |-> "", classes |-> body.classes @@ (name :> made.cls)]

\* the classes there are after the class statement of name
class_statement(cs, on, name) == execute_class(cs, on, name).classes

OnlyPacket == ("Packet" :> PacketClass)

\* the class statements of the module whose packets are instantiated, in the order
\* the module executes them
DeclOrder ==
    <<"BasicPacket", "SwappedPacket", "TestParent", "TestChildBasic", "TestReadOnly",
      "MyPacket", "DynamicPacket", "TestStaticId", "TestTypelike">>

RECURSIVE DeclareAll(_, _)
DeclareAll(cs, names) ==
    IF names = <<>> THEN cs ELSE DeclareAll(class_statement(cs, FALSE, Head(names)), Tail(names))

AllClasses == DeclareAll(OnlyPacket, DeclOrder)

\* the Packet types one can instantiate
Declared == DOMAIN classes \ {"Packet"}

\* the ints handed to fields
IntVals == {v \in Vals : IsInt(v)}

\* keyword arguments: values for some of the names
KwargsOver(names) == UNION {[S -> IntVals] : S \in SUBSET names}

\* the keyword arguments handed to cls(...): its fields, and "test", which no class
\* has as a field (test_packet, line 40)
Kwargs(cs, cls) ==
    KwargsOver(FieldNames(FieldsOf(cs, cls)))
        \cup {[a \in {"test"} |-> PyInt(0)]}

\* the instances other packets are compared with: those a constructor call that
\* names every field it can set returns
Others(cs) ==
    LET made(c) == {Packet_init(cs, c, CtxNone, kw) : kw \in KwargsOver(FieldNames(FieldsOf(cs, c)))}
        full(c) == {m \in made(c) : m.err = "" /\ DOMAIN m.inst.dict = FieldNames(FieldsOf(cs, c))}
    IN  UNION {{m.inst : m \in full(c)} : c \in DOMAIN cs \ {"Packet"}}

\* The operations that return something and leave the packet as it is
Observations ==
    {"pack", "eq", "size", "instance_size", "marshal", "type_pack", "type_unpack", "type_marshal",
     "type_set"}

\* A run makes and changes a packet, and ends with one observation of it: an
\* observation changes nothing, so what a longer run could observe of a packet is
\* what a run observes after its last change.
Building == res.op \notin Observations

\* class name(bases): ...
Declare(name) ==
    /\ name \notin DOMAIN classes
    /\ Cardinality(Declared) < MaxClasses
    /\ Elems(Decls[name].bases) \subseteq DOMAIN classes
    /\ classes' = class_statement(classes, enabled, name)
    /\ res' = Result("class", name, Decls[name],
                     execute_class(classes, enabled, name).err, None)
    /\ UNCHANGED pkt
    /\ UNCHANGED typeVars

\* pkt is what a call that makes a packet (op, of cls with arg) returned, when it
\* returned: made is its [err, inst]
Made(op, cls, arg, made) ==
    /\ pkt' = IF made.err = "" THEN made.inst ELSE NoPacket
    /\ res' = Result(op, cls, arg, made.err, made.inst)
    /\ UNCHANGED classes
    /\ UNCHANGED typeVars

\* what a call that leaves the packet as it is (op, of cls with arg) returned:
\* got is its [err, v]
Observed(op, cls, arg, got) ==
    /\ res' = Result(op, cls, arg, got.err, got.v)
    /\ UNCHANGED <<classes, pkt>>
    /\ UNCHANGED typeVars

\* pkt = cls(**kwargs)
New(cls, kwargs) == Made("init", cls, kwargs, Packet_init(classes, cls, CtxNone, kwargs))

\* pkt = cls.unpack(buf)
Unpack(cls, buf) == Made("unpack", cls, buf, Packet_unpack(classes, cls, buf, CtxNone))

\* the names of the fields the class statements declare
AttrNames == UNION {FieldNames(Decls[d].annotations) : d \in DeclNames}

\* pkt.attr = value, attr a field of pkt
Assign(attr, value) ==
    LET set == Setattr(classes, pkt, attr, value)
    IN  /\ pkt # NoPacket
        /\ attr \in FieldNames(FieldsOf(classes, pkt.cls))
        /\ pkt' = set.inst
        /\ res' = Result("setattr", pkt.cls, <<attr, value>>, set.err, None)
        /\ UNCHANGED classes
        /\ UNCHANGED typeVars

\* del pkt.attr, through Type.__delete__ (type.py lines 262-263)
Delete(attr) ==
    /\ pkt # NoPacket
    /\ attr \in FieldNames(FieldsOf(classes, pkt.cls))
    /\ AccessorIn(classes, Mro(classes, pkt.cls), attr) = "descriptor"
    /\ attr \in DOMAIN pkt.dict
    /\ pkt' = Instance(pkt.cls, [a \in DOMAIN pkt.dict \ {attr} |-> pkt.dict[a]])
    /\ res' = Result("delattr", pkt.cls, attr, "", None)
    /\ UNCHANGED classes
    /\ UNCHANGED typeVars

\* pkt.pack(ctx=ctx)
Pack(ctx) ==
    /\ pkt # NoPacket
    /\ Observed("pack", pkt.cls, ctx, Packet_pack(classes, pkt, ctx))

\* pkt == other
Eq(other) ==
    /\ pkt # NoPacket
    /\ Observed("eq", pkt.cls, other, Packet_eq(classes, pkt, other))

\* cls.size()
SizeOfClass(cls) == Observed("size", cls, None, Packet_size(classes, cls))

\* pkt.size()
SizeOfInstance ==
    /\ pkt # NoPacket
    /\ Observed("instance_size", pkt.cls, pkt, Packet_size(classes, pkt.cls))

\* the three calls of the round trip, each made once: [err, v, arg]
marshal_compared(data, back, eq) ==
    [err |-> IF data.err # "" THEN data.err ELSE IF back.err # "" THEN back.err ELSE eq.err,
     v   |-> data.err = "" /\ back.err = "" /\ eq.err = "" /\ eq.v,
     arg |-> [packed |-> data.err = "", data |-> data.v, back |-> back.inst]]

marshal_unpacked(cs, self, data, back) ==
    marshal_compared(data, back, Packet_eq(cs, back.inst, self))

marshal_packed(cs, self, ctx, data) ==
    marshal_unpacked(cs, self, data, Packet_unpack(cs, self.cls, data.v, ctx))

assert_packet_marshal(cs, self, ctx) ==
    marshal_packed(cs, self, ctx, Packet_pack(cs, self, ctx))

\* the round trip of tests/util.py, assert_packet_marshal: pkt.pack(), then
\* type(pkt).unpack() of that data, then the comparison with pkt.  arg is whether
\* pack() returned, the data and the unpacked packet; out is whether the unpacked
\* packet compared equal to pkt.
RoundTrip(ctx) ==
    /\ pkt # NoPacket
    /\ Observed("marshal", pkt.cls, assert_packet_marshal(classes, pkt, ctx).arg,
                assert_packet_marshal(classes, pkt, ctx))

\* a cache nothing was put in
NoCache == [k \in {} |-> ""]

\* what exists outside the Packet types when a run starts
TypeInit ==
    /\ heap = DeclaredObjects
    /\ held = {}
    /\ typelikes = NoTypelikes
    /\ generated = <<>>
    /\ cache = <<>>
    /\ subs_cache = NoCache
    /\ ids_cache = NoCache
    /\ enabled = FALSE
    /\ scopes = <<>>

\* The module's class statements have run; instances are made and used.
Init ==
    /\ classes = AllClasses
    /\ pkt = NoPacket
    /\ res = NoResult
    /\ TypeInit

Next ==
    \/ Building /\ \E cls \in Declared : \E kwargs \in Kwargs(classes, cls) : New(cls, kwargs)
    \/ Building /\ \E cls \in Declared, buf \in Bufs : Unpack(cls, buf)
    \/ Building /\ \E attr \in AttrNames, value \in IntVals : Assign(attr, value)
    \/ Building /\ \E attr \in AttrNames : Delete(attr)
    \/ Building /\ \E ctx \in Ctxs : Pack(ctx)
    \/ Building /\ \E other \in Others(classes) : Eq(other)
    \/ Building /\ \E cls \in Declared : SizeOfClass(cls)
    \/ Building /\ SizeOfInstance
    \/ Building /\ \E ctx \in Ctxs : RoundTrip(ctx)

Spec == Init /\ [][Next]_vars

\* Only class Packet exists; class statements run in any order their bases allow.
DeclInit ==
    /\ classes = OnlyPacket
    /\ pkt = NoPacket
    /\ res = NoResult
    /\ TypeInit

DeclNext == \E name \in DeclNames : Declare(name)

DeclSpec == DeclInit /\ [][DeclNext]_vars

\* T.size(value, ctx=ctx)
SizeOfType(T, value, ctx) ==
    LET size == Type_size(T, value, ctx)
    IN  /\ res' = Result("Type.size", T, <<value, ctx>>, size.err, size.v)
        /\ UNCHANGED <<classes, pkt>>
        /\ UNCHANGED typeVars

TypeNext ==
    \E T \in TypeNames, value \in Vals \cup {STATIC_SIZE}, ctx \in Ctxs : SizeOfType(T, value, ctx)

TypeSpec == DeclInit /\ [][TypeNext]_vars

\* T.default(ctx=ctx): the caller keeps the object it is handed
Default(T, ctx) ==
    LET made == Type_default(heap, T, ctx)
    IN  /\ Len(heap) < MaxObjects
        /\ heap' = made.heap
        /\ held' = IF made.err = "" /\ IsRef(made.v) THEN held \cup {made.v[1]} ELSE held
        /\ res' = Result("default", T, ctx, made.err, made.v)
        /\ UNCHANGED <<classes, pkt, typelikes, genVars, dispatchVars, dynVars>>

\* value.append(x) on a list the caller was handed by default()
ListAppend(k, x) ==
    /\ k \in held
    /\ Len(heap[k]) < MaxListLen
    /\ heap' = [heap EXCEPT ![k] = Append(@, x)]
    /\ res' = Result("append", "", <<k, x>>, "", None)
    /\ UNCHANGED <<classes, pkt, held, typelikes, genVars, dispatchVars, dynVars>>

DefaultNext ==
    \/ \E T \in TypeNames, ctx \in Ctxs : Default(T, ctx)
    \/ \E k \in 1..MaxObjects, x \in 0..MaxVal : ListAppend(k, x)

\* Type.default() is called and what it returns is mutated, in any order
DefaultSpec == DeclInit /\ [][DefaultNext]_vars

\* Type(typelike)
TypeCall(typelike) ==
    LET made == Type_new(typelikes, typelike)
    IN  /\ res' = Result("Type", "", typelike, made.err, made.v)
        /\ UNCHANGED <<classes, pkt, objVars, typelikes, genVars, dispatchVars, dynVars>>

\* Type.register_typelike(typelike_cls, converter)
Register(typelike_cls, converter) ==
    /\ typelikes' = register_typelike(typelikes, typelike_cls, converter)
    /\ res' = Result("register_typelike", "", typelike_cls, "", None)
    /\ UNCHANGED <<classes, pkt, objVars, genVars, dispatchVars, dynVars>>

\* Type.unregister_typelike(typelike_cls)
Unregister(typelike_cls) ==
    LET popped == unregister_typelike(typelikes, typelike_cls)
    IN  /\ typelikes' = popped.registry
        /\ res' = Result("unregister_typelike", "", typelike_cls, popped.err, None)
        /\ UNCHANGED <<classes, pkt, objVars, genVars, dispatchVars, dynVars>>

\* Type.is_typelike(obj)
IsTypelike(obj) ==
    /\ res' = Result("is_typelike", "", obj, "", is_typelike(typelikes, obj))
    /\ UNCHANGED <<classes, pkt, objVars, typelikes, genVars, dispatchVars, dynVars>>

TypelikeNext ==
    \/ \E typelike \in Typelikes : TypeCall(typelike)
    \/ \E obj \in Typelikes : IsTypelike(obj)
    \/ \E typelike_cls \in TypelikeClasses, converter \in Converters :
           Register(typelike_cls, converter)
    \/ \E typelike_cls \in TypelikeClasses : Unregister(typelike_cls)

\* Classes are registered and unregistered as typelike, and Type() is called
TypelikeSpec == DeclInit /\ [][TypelikeNext]_vars

\* The Packet types of test_subclass_id, and a grandchild that declares no id
DispatchNames == {"Root", "Child1", "Child2", "GrandChild1", "GrandChild2"}

\* the types dispatch is asked of, and the ids it is asked for
Roots == {"Root", "Child1"}
Ids == {None, PyInt(0), PyInt(2), PyInt(3)}

\* the calls of subclass_with_id a run makes with distinct arguments (a run repeats
\* a call as often as it likes)
MaxCalls == 1

\* cls.subclasses()
Subclasses(cls) ==
    LET got == Packet_subclasses(classes, subs_cache, cls)
    IN  /\ cls \in DOMAIN classes
        /\ subs_cache' = got.cache
        /\ res' = Result("subclasses", cls, None, "", got.v)
        /\ UNCHANGED <<classes, pkt, objVars, typelikes, genVars, ids_cache, dynVars>>

\* cls.subclass_with_id(id, ctx=ctx): the cached result when the call was made
\* before, else the result of the body, which the cache then keeps
SubclassWithId(cls, id, ctx) ==
    LET key == CallKey(cls, id, ctx)
        got == Packet_subclasses(classes, subs_cache, cls)
    IN  /\ cls \in DOMAIN classes
        /\ IF key \in DOMAIN ids_cache
           THEN /\ res' = Result("subclass_with_id", cls, <<id, ctx>>, "", ids_cache[key])
                /\ UNCHANGED dispatchVars
           ELSE /\ Cardinality(DOMAIN ids_cache) < MaxCalls
                /\ \E found \in subclass_with_id(classes, got.v, id, ctx) :
                      /\ ids_cache' = ids_cache @@ (key :> found)
                      /\ res' = Result("subclass_with_id", cls, <<id, ctx>>, "", found)
                /\ subs_cache' = got.cache
        /\ UNCHANGED <<classes, pkt, objVars, typelikes, genVars, dynVars>>

DispatchNext ==
    \/ \E name \in DispatchNames : Declare(name)
    \/ \E cls \in Roots : Subclasses(cls)
    \/ \E cls \in Roots, id \in Ids, ctx \in Ctxs : SubclassWithId(cls, id, ctx)
    \/ \E ctx \in Ctxs : SubclassWithId("Packet", None, ctx)

DispatchSpec == DeclInit /\ [][DispatchNext]_vars

\* The Packet types of test_id
IdNames == {"TestEmpty", "TestStaticId", "TestDynamicId"}

\* the StringToIntDynamicValue.context() scopes a run nests
MaxScopes == 2

\* with StringToIntDynamicValue.context(): the block is entered
EnterContext ==
    /\ Len(scopes) < MaxScopes
    /\ enabled' = context_enter(enabled, scopes).enabled
    /\ scopes' = context_enter(enabled, scopes).scopes
    /\ res' = Result("enter", "", None, "", None)
    /\ UNCHANGED <<classes, pkt, objVars, typelikes, genVars, dispatchVars>>

\* the innermost with block is left
ExitContext ==
    /\ scopes # <<>>
    /\ enabled' = context_exit(enabled, scopes).enabled
    /\ scopes' = context_exit(enabled, scopes).scopes
    /\ res' = Result("exit", "", None, "", None)
    /\ UNCHANGED <<classes, pkt, objVars, typelikes, genVars, dispatchVars>>

\* StringToIntDynamicValue.enable() and .disable(), called outside every context
SetEnabled(on) ==
    /\ scopes = <<>>
    /\ enabled' = on
    /\ res' = Result(IF on THEN "enable" ELSE "disable", "", None, "", None)
    /\ UNCHANGED <<classes, pkt, objVars, typelikes, genVars, dispatchVars, scopes>>

\* cls.id(ctx=ctx)
Id(cls, ctx) ==
    /\ cls \in DOMAIN classes
    /\ res' = Result("id", cls, <<ctx>>, Packet_id(classes, cls, ctx).err,
                     Packet_id(classes, cls, ctx).v)
    /\ UNCHANGED <<classes, pkt, typeVars>>

IdNext ==
    \/ \E name \in IdNames \cup DispatchNames : Declare(name)
    \/ EnterContext
    \/ ExitContext
    \/ \E on \in BOOLEAN : SetEnabled(on)
    \/ \E cls \in IdNames \cup DispatchNames \cup {"Packet"}, ctx \in Ctxs : Id(cls, ctx)

IdSpec == DeclInit /\ [][IdNext]_vars

\* the most items a list handed to TestAttr has
MaxItems == 2

\* the keyword arguments handed to TestAttr: a count and a list of that many items
ArrayKwargs ==
    {[a \in {"test", "array"} |-> IF a = "test" THEN PyInt(Len(items)) ELSE PyList(items)] :
        items \in SeqsUpTo({5, 6}, MaxItems)}

\* the raw data handed to TestAttr.unpack
ArrayBufs == SeqsUpTo({0, 2, 5, 6}, MaxBufLen)

\* class TestAttr is declared (test_array, lines 104-106)
ArrayInit ==
    /\ classes = DeclareAll(OnlyPacket, <<"TestAttr">>)
    /\ pkt = NoPacket
    /\ res = NoResult
    /\ TypeInit

ArrayNext ==
    \/ Building /\ \E kwargs \in ArrayKwargs : New("TestAttr", kwargs)
    \/ Building /\ \E buf \in ArrayBufs : Unpack("TestAttr", buf)
    \/ Building /\ \E ctx \in Ctxs : Pack(ctx)
    \/ Building /\ \E ctx \in Ctxs : RoundTrip(ctx)

ArraySpec == ArrayInit /\ [][ArrayNext]_vars

\* The Packet types unpacked from a stream: two fields of constant size, a field
\* of variable size, a field sized by the one before it, and a read-only field
\* followed by another
StreamOrder == <<"BasicPacket", "DynamicPacket", "TestAttr", "TestReadOnly">>
StreamNames == Elems(StreamOrder)

\* the streams: the bytes 0, 1, 2 and one with its top bit set, one byte more than
\* the longest buffer of the other runs
StreamBufs == SeqsUpTo({0, 1, 2, 129}, MaxBufLen + 1)

\* what a cls.unpack(stream) leaves: the packet in pkt, and in res the bytes the
\* stream held from its cursor on (arg), the cursor afterwards counted from there
\* (tell) and the bytes still unread (rest)
Streamed(op, cls, buf, made) ==
    /\ pkt' = IF made.err = "" THEN made.inst ELSE NoPacket
    /\ res' = Result(op, cls, buf, made.err,
                     [tell |-> Len(buf) - Len(made.rest), rest |-> made.rest])
    /\ UNCHANGED classes
    /\ UNCHANGED typeVars

\* pkt = cls.unpack(stream), stream an io.BytesIO over buf with its cursor at 0
UnpackStream(cls, buf) ==
    /\ res = NoResult
    /\ Streamed("unpack_stream", cls, buf, Packet_unpack(classes, cls, buf, CtxNone))

\* pkt = cls.unpack(stream) again on the stream a first unpack has read from
UnpackStreamAgain(cls) ==
    /\ res.op = "unpack_stream"
    /\ res.err = ""
    /\ Streamed("unpack_stream_again", cls, res.out.rest,
                Packet_unpack(classes, cls, res.out.rest, CtxNone))

StreamInit ==
    /\ classes = DeclareAll(OnlyPacket, StreamOrder)
    /\ pkt = NoPacket
    /\ res = NoResult
    /\ TypeInit

StreamNext ==
    \/ \E cls \in StreamNames, buf \in StreamBufs : UnpackStream(cls, buf)
    \/ \E cls \in StreamNames : UnpackStreamAgain(cls)

StreamSpec == StreamInit /\ [][StreamNext]_vars

----------------------------------------------------------------------------
(* Generated Types: Type.make_type and the Types that call it *)

\* a namespace without attributes
EmptyNamespace == [a \in {} |-> ""]

\* The arguments of a make_type call, as util.cache keys its results: the origin
\* Type, the name and the namespace (no caller passes bases)
CacheKey(cls, name, namespace) == [cls |-> cls, name |-> name, namespace |-> namespace]

\* the entries of the cache made for the arguments key
CacheHits(entries, key) == {i \in 1..Len(entries) : entries[i].key = key}

\* type(name, bases, namespace) with bases = (cls,), lines 543-548
NewType(cls, name, namespace) ==
    [cls |-> cls, name |-> name, bases |-> <<cls>>, namespace |-> namespace]

\* make_type with a fault: every call generates a Type
make_type_uncached(types, entries, cls, name, namespace) ==
    [err |-> "", v |-> Len(types) + 1,
     generated |-> Append(types, NewType(cls, name, namespace)),
     cache |-> entries]

\* cls.make_type(name, **namespace), lines 512-548, with the Types generated and
\* the cache entries so far: [err, v, generated, cache], v the Type returned, named
\* by its place in generated
make_type(types, entries, cls, name, namespace) ==
    LET key == CacheKey(cls, name, namespace)
        hits == CacheHits(entries, key)
        new == Len(types) + 1
    IN  IF hits # {}
        THEN [err |-> "", v |-> entries[CHOOSE i \in hits : TRUE].type,
              generated |-> types, cache |-> entries]
        ELSE [err |-> "", v |-> new,
              generated |-> Append(types, NewType(cls, name, namespace)),
              cache |-> Append(entries, [key |-> key, type |-> new])]

\* a call that raised e before it reached make_type
CallRaised(types, entries, e) ==
    [err |-> e, v |-> 0, generated |-> types, cache |-> entries]

\* TestCall._call of test_cached_make_type: cls.make_type("blah")
TestCall_call(types, entries, cls) ==
    make_type(types, entries, cls, <<"blah">>, EmptyNamespace)

\* Enum._call(elem_type, enum_type), enum.py lines 74-82; prepare_types puts
\* elem_type through Type().  The name, an f-string, is the sequence of its parts.
Enum_call(registry, types, entries, cls, elem_type, enum_type) ==
    LET real == Type_new(registry, elem_type)
    IN  IF real.err # "" THEN CallRaised(types, entries, real.err)
        ELSE make_type(types, entries, cls, <<cls, real.v, enum_type>>,
                       [elem_type |-> real.v, enum_type |-> enum_type])

\* Compound._call(name, **elems), compound.py lines 75-78; prepare_types puts
\* each of elems through Type()
Compound_call(registry, types, entries, cls, name, elems) ==
    LET real == ConvertAnnotations(registry, elems)
    IN  IF real.err # "" THEN CallRaised(types, entries, real.err)
        ELSE make_type(types, entries, cls, name, [elems |-> real.v])

\* the Types whose _call is cls.make_type("blah")
TestCalls == {"TestCall", "OtherTestCall"}

\* the enum classes handed to Enum
EnumTypes == {"MyEnum", "OtherEnum"}

\* the names and elems handed to Compound
CompoundNames == {<<"A">>, <<"B">>}
CompoundElems ==
    {<<Field("a", "Int8")>>, <<Field("a", TypelikeOne)>>,
     <<Field("a", "Int8"), Field("b", "Int16")>>, <<Field("a", "'a'")>>}

\* a call of a Type that generates Types: what the call left in generated and
\* cache; arg is the name and the namespace that reached make_type
Generate(op, cls, call, name, namespace) ==
    /\ Len(call.generated) <= MaxTypes
    /\ generated' = call.generated
    /\ cache' = call.cache
    /\ res' = Result(op, cls, [name |-> name, namespace |-> namespace], call.err, call.v)
    /\ UNCHANGED <<classes, pkt, objVars, typelikes, dispatchVars, dynVars>>

\* TestCall()
CallTestCall(cls) ==
    Generate("TestCall()", cls, TestCall_call(generated, cache, cls), <<"blah">>, EmptyNamespace)

\* Enum(elem_type, enum_type)
CallEnum(elem_type, enum_type) ==
    LET real == Type_new(typelikes, elem_type).v
    IN  Generate("Enum()", "Enum",
                 Enum_call(typelikes, generated, cache, "Enum", elem_type, enum_type),
                 <<"Enum", real, enum_type>>, [elem_type |-> real, enum_type |-> enum_type])

\* Compound(name, **elems)
CallCompound(name, elems) ==
    Generate("Compound()", "Compound",
             Compound_call(typelikes, generated, cache, "Compound", name, elems),
             name, [elems |-> ConvertAnnotations(typelikes, elems).v])

\* int is registered as typelike (test_typelike); nothing is generated yet
GenInit ==
    /\ classes = OnlyPacket
    /\ pkt = NoPacket
    /\ res = NoResult
    /\ heap = DeclaredObjects
    /\ held = {}
    /\ typelikes = register_typelike(NoTypelikes, "int", "Int8")
    /\ generated = <<>>
    /\ cache = <<>>
    /\ subs_cache = NoCache
    /\ ids_cache = NoCache
    /\ enabled = FALSE
    /\ scopes = <<>>

GenNext ==
    \/ \E cls \in TestCalls : CallTestCall(cls)
    \/ \E elem_type \in {"Int8", "Int16", TypelikeOne, "'a'"}, enum_type \in EnumTypes :
           CallEnum(elem_type, enum_type)
    \/ \E name \in CompoundNames, elems \in CompoundElems : CallCompound(name, elems)

\* Types that generate Types are called, in any order
GenSpec == GenInit /\ [][GenNext]_vars

----------------------------------------------------------------------------
(* Enum and Compound: src/pak/types/enum.py, src/pak/types/compound.py *)

\* The enum classes and the values of their members: MyEnum (A = 1, B = 2) is
\* the enum of the docstring of Enum, OtherEnum has a member no Int8 holds
EnumValues == [MyEnum |-> {1, 2}, OtherEnum |-> {1, 130}]
EnumNumber == [MyEnum |-> 1, OtherEnum |-> 2]

\* the member of enum_type whose value is n, and the members of enum_type
Member(enum_type, n) == <<n, EnumNumber[enum_type], 0, 0, 0>>
Members(enum_type) == {Member(enum_type, n) : n \in EnumValues[enum_type]}
IsMember(v) == Len(v) = 5

\* Enum.INVALID, a unique sentinel
INVALID == <<0, 0, 0, 0, 0, 0>>

\* enum_type(value): the member with that value, ValueError when there is none
enum_type_call(enum_type, value) ==
    IF IsInt(value) /\ value[1] \in EnumValues[enum_type]
    THEN Ok(Member(enum_type, value[1]))
    ELSE Raise("ValueError")

\* Enum._unpack with a fault: the ValueError of enum_type(value) is not caught
Enum_unpack_raising(elem_type, enum_type, buf, ctx) ==
    LET value == Type_unpack(elem_type, buf, ctx)
        member == enum_type_call(enum_type, value.v)
    IN  IF value.err # "" THEN value
        ELSE [err |-> member.err, v |-> member.v, rest |-> value.rest]

\* Enum._unpack, enum.py lines 58-65; the result is [err, v, rest]
Enum_unpack(elem_type, enum_type, buf, ctx) ==
    LET value == Type_unpack(elem_type, buf, ctx)
        member == enum_type_call(enum_type, value.v)
    IN  IF value.err # "" THEN value
        ELSE IF member.err = "ValueError"
        THEN [err |-> "", v |-> INVALID, rest |-> value.rest]
        ELSE [err |-> member.err, v |-> member.v, rest |-> value.rest]

\* Enum._pack, enum.py lines 67-72; value.value is the value of a member, and an
\* AttributeError on anything else
Enum_pack(elem_type, enum_type, value, ctx) ==
    IF value = INVALID THEN Raise("ValueError")
    ELSE IF ~IsMember(value) THEN Raise("AttributeError")
    ELSE Type_pack(elem_type, PyInt(value[1]), ctx)

RECURSIVE unpack_elems(_, _, _)
\* (t.unpack(buf, ctx=ctx) for t in cls.types()), consumed in order: [err, v, rest]
unpack_elems(types, buf, ctx) ==
    IF types = <<>> THEN [err |-> "", v |-> <<>>, rest |-> buf]
    ELSE LET first == Type_unpack(Head(types), buf, ctx)
             others == unpack_elems(Tail(types), first.rest, ctx)
         IN  IF first.err # "" THEN [err |-> first.err, v |-> <<>>, rest |-> first.rest]
             ELSE IF others.err # "" THEN others
             ELSE [err |-> "", v |-> <<first.v>> \o others.v, rest |-> others.rest]

\* cls.types(): the Types of elems, in the order of the keyword arguments
Compound_types(elems) == [i \in 1..Len(elems) |-> elems[i].type]

\* Compound._unpack, compound.py lines 65-67
Compound_unpack(elems, buf, ctx) == unpack_elems(Compound_types(elems), buf, ctx)

RECURSIVE pack_elems(_, _, _)
\* b"".join(t.pack(v, ctx=ctx) for v, t in zip(value, types)): zip stops at the
\* end of the shorter of the two
pack_elems(value, types, ctx) ==
    IF value = <<>> \/ types = <<>> THEN Ok(<<>>)
    ELSE LET first == Type_pack(Head(types), Head(value), ctx)
             others == pack_elems(Tail(value), Tail(types), ctx)
         IN  IF first.err # "" THEN first
             ELSE IF others.err # "" THEN others
             ELSE Ok(first.v \o others.v)

\* Compound._pack with a fault: a value with fewer or more sub-values than the
\* Compound has sub-Types is refused
Compound_pack_strict(elems, value, ctx) ==
    IF Len(value) # Len(elems) THEN Raise("TypeError")
    ELSE pack_elems(value, Compound_types(elems), ctx)

\* Compound._pack with a fault: the sub-values are packed last to first
Compound_pack_reversed(elems, value, ctx) ==
    pack_elems(Reverse(value), Reverse(Compound_types(elems)), ctx)

\* Compound._pack, compound.py lines 69-73, of a tuple value
Compound_pack(elems, value, ctx) ==
    pack_elems(value, Compound_types(elems), ctx)

\* Compound.__set__, compound.py lines 55-59, of a tuple value: value_type(*value),
\* a namedtuple with one field per sub-Type, takes exactly that many arguments;
\* the result is [err, v], v what the descriptor stores
Compound_set(elems, value) ==
    IF Len(value) # Len(elems) THEN Raise("TypeError") ELSE Ok(value)

\* T._pack and T._unpack of the generated Type T, by the Type that generated it
Generated_pack(T, value, ctx) ==
    IF T.cls = "Enum"
    THEN Enum_pack(T.namespace.elem_type, T.namespace.enum_type, value, ctx)
    ELSE Compound_pack(T.namespace.elems, value, ctx)

Generated_unpack(T, buf, ctx) ==
    IF T.cls = "Enum"
    THEN Enum_unpack(T.namespace.elem_type, T.namespace.enum_type, buf, ctx)
    ELSE Compound_unpack(T.namespace.elems, buf, ctx)

\* The Types whose values are marshalled: Enum(Int8, MyEnum), Enum(Int8, OtherEnum),
\* Enum(Int16, OtherEnum), Compound("A", a=Int8, b=Int16) and
\* Compound("B", a=ULEB128, b=Int8)
MarshalTypes ==
    <<NewType("Enum", <<"Enum", "Int8", "MyEnum">>, [elem_type |-> "Int8", enum_type |-> "MyEnum"]),
      NewType("Enum", <<"Enum", "Int8", "OtherEnum">>, [elem_type |-> "Int8", enum_type |-> "OtherEnum"]),
      NewType("Enum", <<"Enum", "Int16", "OtherEnum">>, [elem_type |-> "Int16", enum_type |-> "OtherEnum"]),
      NewType("Compound", <<"A">>, [elems |-> <<Field("a", "Int8"), Field("b", "Int16")>>]),
      NewType("Compound", <<"B">>, [elems |-> <<Field("a", "ULEB128"), Field("b", "Int8")>>])>>

\* the values handed to the pack of an Enum: the members of the enums, INVALID
EnumInputs == UNION {Members(e) : e \in DOMAIN EnumValues} \cup {INVALID}

\* the longest tuple handed to the pack of a Compound
MaxTuple == 3

\* the values handed to the pack of a Compound: tuples of ints and None
TupleInputs == SeqsUpTo(Vals, MaxTuple) \ {<<>>}

\* the values handed to T.pack
InputsOf(T) == IF T.cls = "Enum" THEN EnumInputs ELSE TupleInputs

\* T.pack(value, ctx=ctx)
TypePack(t, value, ctx) ==
    LET data == Generated_pack(MarshalTypes[t], value, ctx)
    IN  /\ res' = Result("type_pack", MarshalTypes[t].cls, [t |-> t, value |-> value],
                         data.err, data.v)
        /\ UNCHANGED <<classes, pkt, typeVars>>

\* T.unpack(buf, ctx=ctx); what is left of buf is kept with the value
TypeUnpack(t, buf, ctx) ==
    LET got == Generated_unpack(MarshalTypes[t], buf, ctx)
    IN  /\ res' = Result("type_unpack", MarshalTypes[t].cls, [t |-> t, buf |-> buf],
                         got.err, [v |-> got.v, rest |-> got.rest])
        /\ UNCHANGED <<classes, pkt, typeVars>>

\* assert_type_marshal, tests/util.py lines 1-4: T.unpack(T.pack(value)); the
\* raw data is kept with the value unpacked
TypeMarshal(t, value, ctx) ==
    LET data == Generated_pack(MarshalTypes[t], value, ctx)
        got == Generated_unpack(MarshalTypes[t], data.v, ctx)
    IN  /\ res' = IF data.err # ""
                  THEN Result("type_marshal", MarshalTypes[t].cls, [t |-> t, value |-> value],
                              data.err, [data |-> <<>>, v |-> None, rest |-> <<>>])
                  ELSE Result("type_marshal", MarshalTypes[t].cls, [t |-> t, value |-> value],
                              got.err, [data |-> data.v, v |-> got.v, rest |-> got.rest])
        /\ UNCHANGED <<classes, pkt, typeVars>>

\* instance.attr = value, attr a field whose Type is the Compound numbered t
TypeSet(t, value) ==
    /\ MarshalTypes[t].cls = "Compound"
    /\ res' = Result("type_set", MarshalTypes[t].cls, [t |-> t, value |-> value],
                     Compound_set(MarshalTypes[t].namespace.elems, value).err,
                     Compound_set(MarshalTypes[t].namespace.elems, value).v)
    /\ UNCHANGED <<classes, pkt, typeVars>>

MarshalNext ==
    \/ Building /\ \E t \in 1..Len(MarshalTypes), value \in TupleInputs : TypeSet(t, value)
    \/ Building /\ \E t \in 1..Len(MarshalTypes), ctx \in Ctxs :
           \E value \in InputsOf(MarshalTypes[t]) : TypePack(t, value, ctx)
    \/ Building /\ \E t \in 1..Len(MarshalTypes), buf \in Bufs, ctx \in Ctxs :
           TypeUnpack(t, buf, ctx)
    \/ Building /\ \E t \in 1..Len(MarshalTypes), ctx \in Ctxs :
           \E value \in InputsOf(MarshalTypes[t]) : TypeMarshal(t, value, ctx)

\* A value or raw data is handed to one of the Types: pack and unpack keep no
\* state, so what a later call returns is what a first call returns
MarshalSpec == DeclInit /\ [][MarshalNext]_vars

----------------------------------------------------------------------------
(* The claims *)

RECURSIVE Join(_)
\* the concatenation of a sequence of sequences
Join(seqs) == IF seqs = <<>> THEN <<>> ELSE Head(seqs) \o Join(Tail(seqs))

\* the raw data of each field of packet p, taken alone: its Type's pack of the value
\* the field reads as
FieldData(p, ctx) ==
    LET fields == FieldsOf(classes, p.cls)
    IN  [i \in 1..Len(fields) |->
            Type_pack(fields[i].type, Getattr(classes, p, fields[i].attr).v, ctx).v]

\* the ID of cls as its ID type packs it
IdData(cls, ctx) ==
    Type_pack(IdTypeOf(classes, cls), Packet_id(classes, cls, ctx).v, ctx).v

\* the accessors of cls in the order of its fields
Accessors(cls) ==
    LET fields == FieldsOf(classes, cls)
    IN  [i \in 1..Len(fields) |-> AccessorIn(classes, Mro(classes, cls), fields[i].attr)]

\* C1 as stated: whenever a packet packs, unpacking what it packed gives a packet
\* that compares equal to it, whatever the Packet type.
C1_RoundTripOfEveryPacket ==
    (res.op = "marshal" /\ res.arg.packed) => (res.err = "" /\ res.out = TRUE)

\* C1, amended: a packet that packs, of a type whose ID packs to no bytes and whose
\* fields are stored by the Type descriptor or read by a read-only accessor,
\* unpacks from what it packed to a packet that compares equal to it.
C1_RoundTripWithoutIdBytes ==
    (/\ res.op = "marshal"
     /\ res.arg.packed
     /\ IdData(res.cls, CtxNone) = <<>>
     /\ Elems(Accessors(res.cls)) \subseteq {"descriptor", "readonly"})
        => (res.err = "" /\ res.out = TRUE)

\* a BasicPacket holding a negative attr1 made the round trip through three bytes
C1_Witness ==
    /\ res.op = "marshal"
    /\ res.cls = "BasicPacket"
    /\ res.out = TRUE
    /\ Len(res.arg.data) = 3
    /\ pkt.dict["attr1"] = PyInt(-1)
    /\ res.arg.back.dict["attr1"] = PyInt(-1)

\* C2 as stated: pack() returns the fields' raw data joined in declaration order,
\* and nothing else: no ID bytes come first.
C2_PackIsTheFieldsAlone ==
    (res.op = "pack" /\ res.err = "") => res.out = Join(FieldData(pkt, res.arg))

\* C2, amended: pack() returns the ID as the ID type packs it, followed by the
\* fields' raw data joined in the order of the type's fields, and nothing else.
C2_PackIsIdThenFields ==
    (res.op = "pack" /\ res.err = "")
        => res.out = IdData(pkt.cls, res.arg) \o Join(FieldData(pkt, res.arg))

\* a TestStaticId (id 1, packed as an Int8) packed to its ID byte and its field's byte
C2_Witness ==
    /\ res.op = "pack"
    /\ res.err = ""
    /\ pkt.cls = "TestStaticId"
    /\ res.out = <<1, 255>>

RECURSIVE Uniq(_)
\* seq with each element kept where it first occurs
Uniq(seq) ==
    IF seq = <<>> THEN <<>>
    ELSE LET front == Uniq(SubSeq(seq, 1, Len(seq) - 1))
             last == seq[Len(seq)]
         IN  IF last \in Elems(front) THEN front ELSE Append(front, last)

RECURSIVE MergedFields(_)
\* the fields the class statement of name is to give its class: those of its
\* bases in the order the bases are written, each once, then those of its body
MergedFields(name) ==
    IF name = "Packet" THEN <<>>
    ELSE LET bases == Decls[name].bases
         IN  Uniq(Join([i \in 1..Len(bases) |-> MergedFields(bases[i])]))
                \o Decls[name].annotations

\* the class statement of name declares a field under a name one of its ancestors
\* has a field under, or has two bases with a field under one name
DeclaresDuplicate(name) ==
    LET bases == Decls[name].bases
        names(i) == FieldNames(MergedFields(bases[i]))
    IN  \/ \E i \in 1..Len(bases) : names(i) \cap FieldNames(Decls[name].annotations) # {}
        \/ \E i, j \in 1..Len(bases) : i # j /\ names(i) \cap names(j) # {}

\* C3 as stated: the fields of a Packet type are its ancestors' fields, each
\* ancestor once and in the order declared, followed by the fields of its own body.
C3_FieldsMergeAncestors ==
    \A cls \in Declared : ~DeclaresDuplicate(cls) => FieldsOf(classes, cls) = MergedFields(cls)

\* C4 as stated: a class statement that declares a field an ancestor already has, or
\* whose parents both have a field of one name, raises the duplicate-field error and
\* leaves no class.
C4_DuplicateFieldRefused ==
    (res.op = "class" /\ DeclaresDuplicate(res.cls))
        => (res.err = "DuplicateFieldError" /\ res.cls \notin DOMAIN classes)

\* the fields of packet p as a set of (name, Type) pairs
FieldSet(p) ==
    LET fields == FieldsOf(classes, p.cls)
    IN  {<<fields[i].attr, fields[i].type>> : i \in 1..Len(fields)}

\* C5 as stated: two packets compare equal exactly when they have the same field
\* names with the same Types and hold equal values under every field name.
C5_EqualIffSameFieldsAndValues ==
    (res.op = "eq" /\ res.err = "")
        => (res.out <=>
               /\ FieldSet(pkt) = FieldSet(res.arg)
               /\ \A f \in FieldSet(pkt) :
                      Getattr(classes, pkt, f[1]) = Getattr(classes, res.arg, f[1]))

\* the fields of cls whose accessor refuses assignment
ReadOnly(cls) ==
    {a \in FieldNames(FieldsOf(classes, cls)) : AccessorIn(classes, Mro(classes, cls), a) = "readonly"}

\* the bytes a value of Type T takes at the front of buf: its constant size, or for
\* ULEB128 the bytes up to the first one with its top bit clear (more than buf has
\* when there is none)
BytesNeeded(T, buf) ==
    LET ends == {i \in 1..Len(buf) : buf[i] < 128}
    IN  IF TypeDefs[T].size.kind = "const" THEN TypeDefs[T].size.v[1]
        ELSE IF ends = {} THEN Len(buf) + 1
        ELSE CHOOSE i \in ends : \A j \in ends : i <= j

RECURSIVE Chunks(_, _)
\* the bytes of buf that belong to each of the fields, in order, up to the first
\* field buf has too few bytes for
Chunks(fields, buf) ==
    IF fields = <<>> THEN <<>>
    ELSE LET n == BytesNeeded(Head(fields).type, buf)
         IN  IF n > Len(buf) THEN <<>>
             ELSE <<SubSeq(buf, 1, n)>> \o Chunks(Tail(fields), SubSeq(buf, n + 1, Len(buf)))

\* C6: a read-only field is skipped silently by default construction and by unpack,
\* which complete and still set every later field; a value passed for it to the
\* constructor, or assigned to it on an instance, raises AttributeError.
C6_ReadOnlySkippedUnlessExplicit ==
    LET fields == FieldsOf(classes, res.cls)
        names == FieldNames(fields)
        stored == {i \in 1..Len(fields) : fields[i].attr \notin ReadOnly(res.cls)}
        chunks == Chunks(fields, res.arg)
    IN  /\ (res.op = "init" /\ ReadOnly(res.cls) # {} /\ DOMAIN res.arg \subseteq names \ ReadOnly(res.cls))
            => /\ res.err = ""
               /\ DOMAIN pkt.dict = names \ ReadOnly(res.cls)
               /\ \A i \in stored :
                      pkt.dict[fields[i].attr] =
                          IF fields[i].attr \in DOMAIN res.arg THEN res.arg[fields[i].attr]
                          ELSE Type_default(NoObjects, fields[i].type, CtxNone).v
        /\ (res.op = "init" /\ DOMAIN res.arg \cap ReadOnly(res.cls) # {})
            => (res.err = "AttributeError" /\ pkt = NoPacket)
        /\ (res.op = "unpack" /\ ReadOnly(res.cls) # {})
            => /\ res.err # "AttributeError"
               /\ Len(chunks) = Len(fields)
                    => /\ res.err = ""
                       /\ DOMAIN pkt.dict = names \ ReadOnly(res.cls)
                       /\ \A i \in stored :
                              pkt.dict[fields[i].attr] = Type_unpack(fields[i].type, chunks[i], CtxNone).v
        /\ (res.op = "setattr" /\ res.arg[1] \in ReadOnly(res.cls))
            => (res.err = "AttributeError" /\ res.arg[1] \notin DOMAIN pkt.dict)

\* TestReadOnly() was constructed: read_only was skipped and attr2 has its default
C6_Witness ==
    /\ res.op = "init"
    /\ res.cls = "TestReadOnly"
    /\ DOMAIN res.arg = {}
    /\ res.err = ""
    /\ pkt = Instance("TestReadOnly", [a \in {"attr2"} |-> PyInt(0)])

\* C7: unpack reads every field from the buffer in the order of the fields and gives
\* no field its default: a buffer with fewer bytes than the fields need raises
\* BufferOutOfDataError and no packet is returned; otherwise each field the class
\* stores holds what its Type decodes from the field's own bytes.
C7_UnpackReadsEveryField ==
    res.op = "unpack" =>
        LET fields == FieldsOf(classes, res.cls)
            chunks == Chunks(fields, res.arg)
        IN  IF Len(chunks) < Len(fields)
            THEN res.err = "BufferOutOfDataError" /\ pkt = NoPacket
            ELSE /\ res.err = ""
                 /\ pkt.cls = res.cls
                 /\ \A i \in 1..Len(fields) :
                        AccessorIn(classes, Mro(classes, res.cls), fields[i].attr) = "descriptor"
                            => /\ fields[i].attr \in DOMAIN pkt.dict
                               /\ pkt.dict[fields[i].attr] =
                                      Type_unpack(fields[i].type, chunks[i], CtxNone).v

\* BasicPacket.unpack of two bytes, one short of its three, raised and gave no packet
C7_Witness ==
    /\ res.op = "unpack"
    /\ res.cls = "BasicPacket"
    /\ Len(res.arg) = 2
    /\ res.err = "BufferOutOfDataError"
    /\ pkt = NoPacket

RECURSIVE SumOf(_)
SumOf(ns) == IF ns = <<>> THEN 0 ELSE Head(ns) + SumOf(Tail(ns))

C9_InstanceSizeIsSumOfPackedSizes ==
    LET data == FieldData(res.arg, CtxNone)
    IN  (/\ res.op = "instance_size"
         /\ \A a \in FieldNames(FieldsOf(classes, res.cls)) :
                /\ Getattr(classes, res.arg, a).err = ""
                /\ Type_pack(CHOOSE T \in TypeNames : <<a, T>> \in FieldSet(res.arg),
                             Getattr(classes, res.arg, a).v, CtxNone).err = "")
            => /\ res.err = ""
               /\ res.out = PyInt(SumOf([i \in 1..Len(data) |-> Len(data[i])]))

\* C10: Type.size(value, ctx) returns a constant size slot whatever the value; it
\* returns what a computed rule gives when that is not None; and when the slot is
\* None, or the rule gives None or raises NoStaticSizeError, it returns the length of
\* pack(value) for a value and raises NoStaticSizeError for STATIC_SIZE.
C10_SizeResolutionTiers ==
    res.op = "Type.size" =>
        LET T == res.cls
            value == res.arg[1]
            ctx == res.arg[2]
            slot == TypeDefs[T].size
            rule == CASE slot.kind = "method" -> SizeMethod(slot.rule, value, ctx)
                      [] slot.kind = "dyn"    -> DynamicValue_get(slot.rule, ctx)
                      [] OTHER                -> Ok(None)
            computed == slot.kind \in {"method", "dyn"}
            unknown == \/ slot.kind = "none"
                       \/ computed /\ rule.err = "NoStaticSizeError"
                       \/ computed /\ rule.err = "" /\ rule.v = None
            data == Type_pack(T, value, ctx)
        IN  /\ slot.kind = "const" => (res.err = "" /\ res.out = slot.v)
            /\ (computed /\ rule.err = "" /\ rule.v # None) => (res.err = "" /\ res.out = rule.v)
            /\ (unknown /\ value # STATIC_SIZE)
                => (res.err = data.err /\ (data.err = "" => res.out = PyInt(Len(data.v))))
            /\ (unknown /\ value = STATIC_SIZE) => res.err = "NoStaticSizeError"

\* a Type whose rule raises NoStaticSizeError measured the two bytes 130 packs to
C10_Witness ==
    /\ res.op = "Type.size"
    /\ res.cls = "TestRaisingSize"
    /\ res.arg[1] = BigVal
    /\ res.err = ""
    /\ res.out = PyInt(2)

\* what the value v is equal to, with the objects h: a list by what it holds
ValueOf(h, v) == IF IsRef(v) THEN h[v[1]] ELSE v

\* the Types with a constant default
ConstantDefaults == {T \in TypeNames : TypeDefs[T].default.kind = "const"}

\* C11 as stated: whatever default() calls and mutations of the returned values came
\* before, default() of a Type with a constant default returns a value equal to the
\* declared constant and never the same object as the declared constant; a Type with
\* no default raises an error.
C11_DefaultIsNeverTheDeclaredObject ==
    /\ \A T \in ConstantDefaults :
           ValueOf(heap, TypeDefs[T].default.v) = ValueOf(DeclaredObjects, TypeDefs[T].default.v)
    /\ (res.op = "default" /\ res.cls \in ConstantDefaults)
           => /\ res.err = ""
              /\ ValueOf(heap, res.out) = ValueOf(DeclaredObjects, TypeDefs[res.cls].default.v)
              /\ res.out # TypeDefs[res.cls].default.v
    /\ (res.op = "default" /\ TypeDefs[res.cls].default.kind = "none") => res.err = "TypeError"

\* C11, amended: whatever default() calls and mutations of the returned values came
\* before, default() of a Type with a constant default returns a value equal to the
\* declared constant, the declared constant is what it was declared as, and a
\* mutable declared constant is never the object returned (an immutable one, such
\* as an int, is returned as it is); a Type with no default raises TypeError.
C11_DefaultIsAnIndependentCopy ==
    /\ \A T \in ConstantDefaults :
           ValueOf(heap, TypeDefs[T].default.v) = ValueOf(DeclaredObjects, TypeDefs[T].default.v)
    /\ (res.op = "default" /\ res.cls \in ConstantDefaults)
           => /\ res.err = ""
              /\ ValueOf(heap, res.out) = ValueOf(DeclaredObjects, TypeDefs[res.cls].default.v)
              /\ IsRef(TypeDefs[res.cls].default.v) => res.out # TypeDefs[res.cls].default.v
    /\ (res.op = "default" /\ TypeDefs[res.cls].default.kind = "none") => res.err = "TypeError"

\* default() of the Type whose _default is [1, 2, 3] returned a new list equal to
\* it after the list an earlier call returned was appended to
C11_Witness ==
    /\ res.op = "default"
    /\ res.cls = "TestStaticDefault"
    /\ res.out = Ref(3)
    /\ heap[2] = <<1, 2, 3, 0>>
    /\ heap[3] = <<1, 2, 3>>

\* C12: Type(x) returns x itself when x is a Type definition; otherwise the result
\* of the converter of the first class, in the order the classes are registered,
\* that x is an instance of; otherwise it raises TypeError.
C12_TypelikeConversion ==
    res.op = "Type" =>
        LET x == res.arg
            matches == {i \in 1..Len(typelikes) : isinstance(x, typelikes[i].cls)}
        IN  IF x \in TypeNames THEN res.err = "" /\ res.out = x
            ELSE IF matches = {} THEN res.err = "TypeError"
            ELSE /\ res.err = ""
                 /\ \E i \in matches :
                        /\ \A j \in 1..(i - 1) : j \notin matches
                        /\ res.out = CallConverter(typelikes[i].converter, x).v

\* int was registered before bool: Type(True) is what the converter of int gives
C12_Witness ==
    /\ res.op = "Type"
    /\ res.arg = "True"
    /\ typelikes = <<[cls |-> "int", converter |-> "Int16"], [cls |-> "bool", converter |-> "Int8"]>>
    /\ res.out = "Int16"

\* the calls that generate a Type
Generating == {"TestCall()", "Enum()", "Compound()"}

IdsUnder(cls, ctx) ==
    {c \in Descendants(classes, cls) : Packet_id(classes, c, ctx).v # None}

\* every descendant of cls declares an id of its own, and no two have the same id
DistinctIds(cls, ctx) ==
    /\ \A c \in Descendants(classes, cls) : classes[c].id.declared
    /\ \A c, d \in IdsUnder(cls, ctx) :
          Packet_id(classes, c, ctx).v = Packet_id(classes, d, ctx).v => c = d

\* the descendants of cls that declare the id
Declaring(cls, id, ctx) ==
    {c \in IdsUnder(cls, ctx) : Packet_id(classes, c, ctx).v = id}

\* C14: when the descendants of a root (children and grandchildren, all declared
\* when the root first computes its subclasses) declare distinct ids,
\* root.subclass_with_id(i, ctx) returns the descendant that declares i, and
\* returns None when no descendant declares i
C14_DispatchFindsTheDeclaringDescendant ==
    (/\ res.op = "subclass_with_id"
     /\ subs_cache[res.cls] = Descendants(classes, res.cls)
     /\ DistinctIds(res.cls, res.arg[2]))
        => IF Declaring(res.cls, res.arg[1], res.arg[2]) = {}
           THEN res.out = NoClass
           ELSE Declaring(res.cls, res.arg[1], res.arg[2]) = {res.out}

\* Root.subclass_with_id(2) is GrandChild1, with the four classes of the test declared
C14_Witness ==
    /\ res.op = "subclass_with_id"
    /\ res.cls = "Root"
    /\ res.arg[1] = PyInt(2)
    /\ res.out = "GrandChild1"
    /\ Descendants(classes, "Root") = {"Child1", "Child2", "GrandChild1"}
    /\ subs_cache["Root"] = Descendants(classes, "Root")
    /\ DistinctIds("Root", res.arg[2])

\* the class whose id declaration cls.id is: cls or its nearest ancestor that
\* declares an id, "Packet" when none does
IdDeclarer(cls) ==
    FirstWith(Mro(classes, cls),
              {i \in 1..Len(Mro(classes, cls)) :
                  Mro(classes, cls)[i] = "Packet" \/ Decls[Mro(classes, cls)[i]].id.declared})

\* the declaration of cls.id was enrolled as a DynamicValue
Enrolled(cls) == classes[IdDeclarer(cls)].id.slot.kind = "dyn"

\* int(string) for the strings of the model
IntOf(v) == IF v = StrOne THEN PyInt(1) ELSE None

\* C15: cls.id(ctx=ctx) is None when no id is declared for cls, the declared value
\* when the id is a plain value, and what the DynamicValue gives for the ctx of the
\* call when the declaration was enrolled as a DynamicValue at declaration time
C15_IdIsNoneOrPlainOrResolved ==
    res.op = "id" =>
        /\ res.err = ""
        /\ res.out = IF IdDeclarer(res.cls) = "Packet" THEN None
                     ELSE IF Enrolled(res.cls)
                          THEN IntOf(Decls[IdDeclarer(res.cls)].id.slot.v)
                          ELSE Decls[IdDeclarer(res.cls)].id.slot.v

\* TestDynamicId, declared inside the context, gives 1 after the context was left
C15_Witness ==
    /\ res.op = "id"
    /\ res.cls = "TestDynamicId"
    /\ res.out = PyInt(1)
    /\ ~enabled
    /\ {"TestEmpty", "TestStaticId"} \subseteq DOMAIN classes

IsEnumType(t) == MarshalTypes[t].cls = "Enum"

\* what the underlying Type of the Enum numbered t reads from buf
Underlying(t, buf) == Type_unpack(MarshalTypes[t].namespace.elem_type, buf, CtxNone)

SubData(t, value) ==
    [i \in 1..Len(value) |->
        Type_pack(MarshalTypes[t].namespace.elems[i].type, value[i], CtxNone)]

\* the values the Type numbered t can represent: a member of its enum whose value
\* the underlying Type packs; a tuple with one value per sub-Type, each of which
\* its sub-Type packs
Representable(t, value) ==
    IF IsEnumType(t)
    THEN /\ value \in Members(MarshalTypes[t].namespace.enum_type)
         /\ Type_pack(MarshalTypes[t].namespace.elem_type, PyInt(value[1]), CtxNone).err = ""
    ELSE /\ Len(value) = Len(MarshalTypes[t].namespace.elems)
         /\ \A i \in 1..Len(value) : SubData(t, value)[i].err = ""

\* C17: for an Enum or Compound Type T and a value v it can represent,
\* T.unpack(T.pack(v)) is v and uses up the raw data, and the raw data of a
\* Compound is the raw data of its sub-values in the order they are declared
C17_GeneratedTypesRoundTrip ==
    (res.op = "type_marshal" /\ Representable(res.arg.t, res.arg.value))
        => /\ res.err = ""
           /\ res.out.v = res.arg.value
           /\ res.out.rest = <<>>
           /\ ~IsEnumType(res.arg.t)
                => res.out.data = Join([i \in 1..Len(res.arg.value) |->
                                           SubData(res.arg.t, res.arg.value)[i].v])

\* Compound("A", a=Int8, b=Int16) round-trips (1, 130) through 01 82 00
C17_Witness ==
    /\ res.op = "type_marshal"
    /\ res.arg.t = 4
    /\ res.arg.value = <<PyInt(1), BigVal>>
    /\ res.out.data = <<1, 130, 0>>
    /\ res.out.v = res.arg.value

\* the TestAttr that the raw data buf holds: the count in its first byte, then
\* that many items
HeldIn(buf) ==
    [a \in {"test", "array"} |->
        IF a = "test" THEN PyInt(buf[1]) ELSE PyList(SubSeq(buf, 2, 1 + buf[1]))]

\* C18: TestAttr declares the count test before the array Int8["test"]:
\* unpack reads the count and then exactly that many items, and fails when the
\* raw data holds fewer items than the count; pack gives the count and then the
\* items
C18_ArrayIsSizedBySibling ==
    /\ (res.op = "unpack" /\ res.cls = "TestAttr")
            => IF Len(res.arg) >= 1 /\ Len(res.arg) - 1 >= res.arg[1]
               THEN res.err = "" /\ res.out.dict = HeldIn(res.arg)
               ELSE res.err # ""
    /\ (res.op = "pack" /\ res.cls = "TestAttr")
            => /\ res.err = ""
               /\ res.out = <<pkt.dict["test"][1]>> \o ListItems(pkt.dict["array"])

\* TestAttr(test=2, array=[5, 6]) packs to 02 05 06, which unpacks to an equal packet
C18_Witness ==
    /\ res.op = "marshal"
    /\ res.cls = "TestAttr"
    /\ pkt.dict = HeldIn(<<2, 5, 6>>)
    /\ res.arg.data = <<2, 5, 6>>
    /\ res.arg.back = pkt
    /\ res.out = TRUE

\* the class statements that declare a Header, and those whose Header declares
\* a Header itself
DeclaresHeader(name) == name \in DOMAIN Headers
DeclaresNestedHeader(name) == DeclaresHeader(name) /\ DeclaresHeader(Headers[name])

\* C20: a class statement that declares a Header is accepted when that Header
\* declares no Header, and raises when it does
C20_AtMostOneHeader ==
    (res.op = "class" /\ DeclaresHeader(res.cls))
        => (res.err # "" <=> DeclaresNestedHeader(res.cls))

\* C21: the dispatch caches are frozen at first use.  Once subclasses() was called
\* on a Packet type, its entry in the cache never changes and every call returns
\* that entry, so a class declared afterwards is not in what is returned; once
\* subclass_with_id(id, ctx) returned for a type, id and ctx, the entry of that call
\* never changes and every later call returns it, whatever is declared in between
C21_DispatchCachesAreFrozen ==
    /\ [][\A cls \in DOMAIN subs_cache :
             cls \in DOMAIN subs_cache' /\ subs_cache'[cls] = subs_cache[cls]]_vars
    /\ [][\A key \in DOMAIN ids_cache :
             key \in DOMAIN ids_cache' /\ ids_cache'[key] = ids_cache[key]]_vars
    /\ [](res.op = "subclasses" => res.out = subs_cache[res.cls])
    /\ [](res.op = "subclass_with_id"
            => res.out = ids_cache[CallKey(res.cls, res.arg[1], res.arg[2])])

\* subclass_with_id answers not-found from its cache although a descendant
\* declared since then has the id asked for, and the cached descendant set lacks
\* a class declared since it was computed
C21_Witness ==
    /\ res.op = "subclass_with_id"
    /\ res.out = NoClass
    /\ res.arg[1] # None
    /\ \E c \in Descendants(classes, res.cls) : Packet_id(classes, c, res.arg[2]).v = res.arg[1]
    /\ subs_cache[res.cls] # Descendants(classes, res.cls)

\* the objects that are no Type definition and that typelike_cls alone, among the
\* classes of registry, has as instances
MatchedOnlyBy(registry, typelike_cls) ==
    {x \in Typelikes \ TypeNames :
        \A i \in 1..Len(registry) : isinstance(x, registry[i].cls) <=> registry[i].cls = typelike_cls}

\* C22: whatever was registered and unregistered, is_typelike(x) is true exactly
\* when Type(x) returns a Type and false exactly when Type(x) raises TypeError; and
\* when a class is unregistered, an object that only that class matched is not
\* typelike any more and Type() of it raises TypeError
C22_IsTypelikeAgreesWithTypeCall ==
    /\ [](res.op = "is_typelike" =>
            /\ res.out = TRUE <=> (Type_new(typelikes, res.arg).err = ""
                                    /\ Type_new(typelikes, res.arg).v \in TypeNames)
            /\ res.out = FALSE <=> Type_new(typelikes, res.arg).err = "TypeError")
    /\ [][(res'.op = "unregister_typelike" /\ res'.err = "") =>
            \A x \in MatchedOnlyBy(typelikes, res'.arg) :
                /\ is_typelike(typelikes, x)
                /\ ~is_typelike(typelikes', x)
                /\ Type_new(typelikes', x).err = "TypeError"]_vars

\* int was unregistered while bool stays registered: the int 1, which only int
\* matched, is not typelike and Type(1) raises
C22_Witness ==
    /\ res.op = "is_typelike"
    /\ res.arg = TypelikeOne
    /\ res.out = FALSE
    /\ \E i \in 1..Len(typelikes) : typelikes[i].cls = "bool"
    /\ Type_new(typelikes, TypelikeOne).err = "TypeError"

\* the positions, in the class statement of cls, of the fields the body of cls
\* supplies an accessor for
Accessored(cls) ==
    {i \in 1..Len(Decls[cls].annotations) :
        Decls[cls].annotations[i].attr \in DOMAIN Decls[cls].props}

\* what the field at position i of packet p reads as: 1 through the getter of the
\* read-only accessor, else what is stored for it
ReadThrough(p, i) ==
    LET f == Decls[p.cls].annotations[i]
    IN  IF f.attr \in DOMAIN Decls[p.cls].props /\ Decls[p.cls].props[f.attr] = "readonly"
        THEN PyInt(1) ELSE p.dict[f.attr]

\* what assigning value to the field at position i of cls leaves stored: value + 1
\* through the setter of the docstring's MyPacket, else value
StoredThrough(cls, i, value) ==
    LET f == Decls[cls].annotations[i]
    IN  IF f.attr \in DOMAIN Decls[cls].props /\ Decls[cls].props[f.attr] = "plus1"
        THEN PyInt(value[1] + 1) ELSE value

\* the fields of cls that are stored when assigned
Writable(cls) ==
    {i \in 1..Len(Decls[cls].annotations) :
        Decls[cls].annotations[i].attr \notin DOMAIN Decls[cls].props
            \/ Decls[cls].props[Decls[cls].annotations[i].attr] # "readonly"}

\* C23: a field the class body supplies an accessor for keeps that accessor (no
\* descriptor is generated for it) and is a field at the position it is declared at;
\* the constructor and unpack store its value through the setter, pack and == read
\* it through the getter, with the other fields and in declared order
C23_AccessorFieldsAreFields ==
    /\ \A cls \in Declared : \A i \in Accessored(cls) :
          /\ classes[cls].attrs[Decls[cls].annotations[i].attr]
                = Decls[cls].props[Decls[cls].annotations[i].attr]
          /\ Len(FieldsOf(classes, cls)) = Len(Decls[cls].annotations)
          /\ FieldsOf(classes, cls)[i] = Decls[cls].annotations[i]
    /\ (res.op = "init" /\ res.err = "" /\ Accessored(res.cls) # {})
          => \A i \in Writable(res.cls) :
                LET f == Decls[res.cls].annotations[i]
                IN  pkt.dict[f.attr] =
                        StoredThrough(res.cls, i,
                            IF f.attr \in DOMAIN res.arg THEN res.arg[f.attr]
                            ELSE Type_default(NoObjects, f.type, CtxNone).v)
    /\ (res.op = "unpack" /\ res.err = "" /\ Accessored(res.cls) # {})
          => \A i \in Writable(res.cls) :
                LET f == Decls[res.cls].annotations[i]
                IN  pkt.dict[f.attr] =
                        StoredThrough(res.cls, i,
                            Type_unpack(f.type, Chunks(Decls[res.cls].annotations, res.arg)[i], CtxNone).v)
    /\ (res.op = "pack" /\ res.err = "" /\ Accessored(pkt.cls) # {})
          => res.out = IdData(pkt.cls, res.arg)
                \o Join([i \in 1..Len(Decls[pkt.cls].annotations) |->
                            Type_pack(Decls[pkt.cls].annotations[i].type, ReadThrough(pkt, i), res.arg).v])
    /\ (res.op = "eq" /\ res.err = "" /\ Accessored(pkt.cls) # {} /\ res.arg.cls = pkt.cls)
          => (res.out <=> \A i \in 1..Len(Decls[pkt.cls].annotations) :
                            ReadThrough(pkt, i) = ReadThrough(res.arg, i))

\* MyPacket() stored 1 through the setter (the default 0, plus 1) and packed the
\* byte the getter reads
C23_Witness ==
    /\ res.op = "pack"
    /\ res.err = ""
    /\ pkt.cls = "MyPacket"
    /\ classes["MyPacket"].attrs["prop"] = "plus1"
    /\ pkt.dict["prop"] = PyInt(1)
    /\ res.out = <<1>>

\* the classes of the cached descendant set of cls whose id, declared by
\* themselves or by their nearest ancestor that declares one, is id
WithId(cls, id) ==
    {c \in subs_cache[cls] :
        IdDeclarer(c) # "Packet" /\ Decls[IdDeclarer(c)].id.slot.v = id}

\* those of them that declare no id of their own
Inheriting(cls, id) == {c \in WithId(cls, id) : ~Decls[c].id.declared}

\* C24: a Packet type that declares no id has the id of its nearest ancestor that
\* declares one (None when none does), and counts for subclass_with_id as a class
\* with that id: the call for that id returns a class, one of those that have the
\* id, and returns the inheriting class when no other descendant has the id
C24_InheritedIdIsDispatched ==
    res.op = "subclass_with_id" =>
        /\ \A c \in subs_cache[res.cls] :
              ~Decls[c].id.declared =>
                  Packet_id(classes, c, res.arg[2]).v =
                      IF IdDeclarer(c) = "Packet" THEN None
                      ELSE Decls[IdDeclarer(c)].id.slot.v
        /\ Inheriting(res.cls, res.arg[1]) # {} => res.out \in WithId(res.cls, res.arg[1])
        /\ (Inheriting(res.cls, res.arg[1]) # {}
                /\ Inheriting(res.cls, res.arg[1]) = WithId(res.cls, res.arg[1]))
              => res.out \in Inheriting(res.cls, res.arg[1])

\* Root.subclass_with_id(0) is GrandChild2, which declares no id and has the id 0
\* of Child1, a descendant of Root as well
C24_Witness ==
    /\ res.op = "subclass_with_id"
    /\ res.cls = "Root"
    /\ res.arg[1] = PyInt(0)
    /\ res.out = "GrandChild2"
    /\ ~Decls["GrandChild2"].id.declared
    /\ "Child1" \in subs_cache["Root"]

\* the classes of the cached descendant set of cls whose id is None
WithoutId(cls, ctx) ==
    {c \in subs_cache[cls] : Packet_id(classes, c, ctx).v = None}

\* C25: cls.subclass_with_id(None, ctx=ctx) returns None for every cls and ctx,
\* whether or not cls has descendants whose id is None, and no call returns a
\* class whose id is None
C25_NoIdIsNeverDispatched ==
    res.op = "subclass_with_id" =>
        /\ res.arg[1] = None => res.out = NoClass
        /\ res.out \notin WithoutId(res.cls, res.arg[2])

\* Packet.subclass_with_id(None) is None although Root, a descendant, has no id
C25_Witness ==
    /\ res.op = "subclass_with_id"
    /\ res.cls = "Packet"
    /\ res.arg[1] = None
    /\ res.out = NoClass
    /\ "Root" \in WithoutId("Packet", res.arg[2])

\* the Packet types whose fields are all of Types that hold no other Type
LeafOnly(cls) ==
    \A i \in 1..Len(FieldsOf(classes, cls)) :
        TypeDefs[FieldsOf(classes, cls)[i].type].codec # "Array"

\* the bytes that can follow the last field of a packet in a stream
Tails == SeqsUpTo({0, 129}, 2)

\* C26: cls.unpack(stream) that returns has moved the cursor over exactly the
\* bytes its fields decode and no further.  The bytes before the cursor alone
\* unpack to the returned packet and leave nothing, and no shorter stream unpacks;
\* whatever bytes follow them, unpack returns the same packet without an error and
\* leaves those bytes unread; and each stored field holds what its Type decodes
\* from its own bytes, which follow those of the field before it
C26_UnpackLeavesTheRestUnread ==
    (res.op \in {"unpack_stream", "unpack_stream_again"} /\ res.err = "") =>
        LET read == SubSeq(res.arg, 1, res.out.tell)
            fields == FieldsOf(classes, res.cls)
            chunks == Chunks(fields, res.arg)
        IN  /\ res.arg = read \o res.out.rest
            /\ \A tail \in Tails \cup {res.out.rest} :
                  Packet_unpack(classes, res.cls, read \o tail, CtxNone)
                      = [err |-> "", inst |-> pkt, rest |-> tail]
            /\ \A k \in 0..(Len(read) - 1) :
                  Packet_unpack(classes, res.cls, SubSeq(read, 1, k), CtxNone).err
                      = "BufferOutOfDataError"
            /\ LeafOnly(res.cls) =>
                  /\ Len(chunks) = Len(fields)
                  /\ read = Join(chunks)
                  /\ \A i \in 1..Len(fields) :
                        fields[i].attr \in DOMAIN pkt.dict =>
                            pkt.dict[fields[i].attr] = Type_unpack(fields[i].type, chunks[i], CtxNone).v

\* TestAttr.unpack of a stream holding 2, 0, 1 and then 129 read the count and
\* the two items, and left the cursor at 3 with the last byte unread
C26_Witness ==
    /\ res.op = "unpack_stream"
    /\ res.cls = "TestAttr"
    /\ res.arg = <<2, 0, 1, 129>>
    /\ res.err = ""
    /\ res.out = [tell |-> 3, rest |-> <<129>>]
    /\ pkt.dict["test"] = PyInt(2)
    /\ pkt.dict["array"] = PyList(<<0, 1>>)

\* value has fewer sub-values than the Compound numbered t has sub-Types
Short(t, value) ==
    ~IsEnumType(t) /\ Len(value) < Len(MarshalTypes[t].namespace.elems)

\* each sub-value of value is one the sub-Type at its place packs
Packable(t, value) == \A i \in 1..Len(value) : SubData(t, value)[i].err = ""

\* C27: Compound.pack of a value with fewer sub-values than the Compound has
\* sub-Types raises nothing when the sub-Types at their places pack the sub-values:
\* it returns their raw data, joined, and nothing for the sub-Types left over;
\* Compound.unpack of that raw data raises BufferOutOfDataError; and assigning the
\* short value to a field of the Compound raises TypeError
C27_ShortValuePacksButIsNotAssigned ==
    /\ (res.op = "type_pack" /\ Short(res.arg.t, res.arg.value) /\ Packable(res.arg.t, res.arg.value))
          => /\ res.err = ""
             /\ res.out = Join([i \in 1..Len(res.arg.value) |-> SubData(res.arg.t, res.arg.value)[i].v])
    /\ (res.op = "type_marshal" /\ Short(res.arg.t, res.arg.value) /\ Packable(res.arg.t, res.arg.value))
          => /\ res.err = "BufferOutOfDataError"
             /\ res.out.data = Join([i \in 1..Len(res.arg.value) |-> SubData(res.arg.t, res.arg.value)[i].v])
    /\ (res.op = "type_set" /\ Short(res.arg.t, res.arg.value))
          => res.err = "TypeError"

\* Compound("A", a=Int8, b=Int16).pack((1,)) is the one byte of a, which unpack
\* runs out of data on when it comes to b
C27_Witness ==
    /\ res.op = "type_marshal"
    /\ MarshalTypes[res.arg.t].name = <<"A">>
    /\ res.arg.value = <<PyInt(1)>>
    /\ res.out.data = <<1>>
    /\ res.err = "BufferOutOfDataError"

====
